---- MODULE Spec2Model ----
(***************************************************************************)
(* Billing engine of JDN-BACKEND: consumption from meter index readings,   *)
(* rate composition, the VAT / withholding / penalty cascade, the reading  *)
(* locator and the per-meter billing entry points                          *)
(* (src/utils/billingEngine.js, src/utils/rocUtils.js).                    *)
(*                                                                         *)
(* Numbers are exact rationals <<n, d>> in lowest terms (d > 0): the       *)
(* decimal columns of the catalog (DECIMAL(10,2)) and every product and    *)
(* sum the engine forms are represented without loss; the binary floating  *)
(* point error of the JavaScript arithmetic is not modelled.               *)
(* Calendar dates are the integers yyyymmdd, which order exactly as the    *)
(* 'YYYY-MM-DD' strings the engine compares.                               *)
(***************************************************************************)
EXTENDS Integers, Sequences, FiniteSets, TLC

VARIABLES meterTbl, stallTbl, tenantTbl, buildingTbl, vatTbl, wtTbl,
          readingTbl, last, billingTbl, posts

vars == <<meterTbl, stallTbl, tenantTbl, buildingTbl, vatTbl, wtTbl,
          readingTbl, last, billingTbl, posts>>

\* the billing_list table and the POST requests in flight, which only the
\* handlers that store a billing header touch
stored == <<billingTbl, posts>>

catalog == <<meterTbl, stallTbl, tenantTbl, buildingTbl, vatTbl, wtTbl>>

(***************************************************************************)
(* Exact arithmetic                                                        *)
(***************************************************************************)
Abs(i) == IF i < 0 THEN -i ELSE i

RECURSIVE GCD(_, _)
GCD(a, b) == IF b = 0 THEN a ELSE GCD(b, a % b)

\* the rational n/d (d > 0) in lowest terms
Q(n, d) == LET g == GCD(Abs(n), d) IN <<n \div g, d \div g>>

Zero == <<0, 1>>
One  == <<1, 1>>
Hundred == <<100, 1>>

\* sums over the least common denominator, products reduced crosswise first,
\* so that intermediate integers stay small
Add(x, y) == LET l == (x[2] \div GCD(x[2], y[2])) * y[2]
             IN  Q(x[1] * (l \div x[2]) + y[1] * (l \div y[2]), l)
Neg(x)    == <<-x[1], x[2]>>
Sub(x, y) == Add(x, Neg(y))
Mul(x, y) == LET g1 == GCD(Abs(x[1]), y[2])
                 g2 == GCD(Abs(y[1]), x[2])
             IN  <<(x[1] \div g1) * (y[1] \div g2), (x[2] \div g2) * (y[2] \div g1)>>
\* x / y for y # 0
Div(x, y) == IF y[1] > 0 THEN Mul(x, <<y[2], y[1]>>)
                         ELSE Mul(x, <<-y[2], -y[1]>>)
Lt(x, y)  == x[1] * y[2] < y[1] * x[2]
Le(x, y)  == x[1] * y[2] <= y[1] * x[2]
Gt(x, y)  == Lt(y, x)
Ge(x, y)  == Le(y, x)

Floor(x) == x[1] \div x[2]

\* Math.round: the integer nearest to x, halves going up (towards +infinity)
MathRound(x) == LET i == Floor(x)
                    r == x[1] - i * x[2]
                IN  i + (IF 2 * r >= x[2] THEN 1 ELSE 0)

\* Math.ceil
\* variant: Math.floor
MathCeil_floor(x) == x[1] \div x[2]

MathCeil(x) == -((-x[1]) \div x[2])

\* 10 ** d for the two precisions the engine uses
Pow10(d) == IF d = 0 THEN 1 ELSE IF d = 1 THEN 10 ELSE 100

\* the JavaScript null / undefined / NaN where a number is expected
Null == <<0, 0>>

\* a missing row, a missing string
None == "none"

\* Number(v) || dflt : null, NaN and 0 all give the default
NumOr(v, dflt) == IF v = Null \/ v = Zero THEN dflt ELSE v

(***************************************************************************)
(* billingEngine.js helpers                                                *)
(***************************************************************************)
LPG_MIN_CON == One

round(n, d) ==
  IF n = Null THEN Null
  ELSE LET x == NumOr(n, Zero)
           f == Pow10(d)
       IN  Q(MathRound(Mul(x, <<f, 1>>)), f)

\* variant: the boundary value 1 read as a fraction (n > 1 instead of n >= 1)
normalizePct_strict(v) ==
  LET n == NumOr(v, Zero)
  IN  IF Gt(n, One) THEN Div(n, Hundred) ELSE n

normalizePct(v) ==
  LET n == NumOr(v, Zero)
  IN  IF Ge(n, One) THEN Div(n, Hundred) ELSE n

\* String(t || '').toLowerCase() on the type names that occur
toLowerCase(t) ==
  CASE t = "Electric" -> "electric"
    [] t = "WATER"    -> "water"
    [] t = "LPG"      -> "lpg"
    [] t = None       -> ""
    [] OTHER          -> t

\* a returned value, and a thrown Error (status 0: the Error carries none)
Ok(v) == [ok |-> TRUE, value |-> v]
Err(status, message) == [ok |-> FALSE, status |-> status, message |-> message]
Unsupported == Err(0, "Unsupported meter type")

getUtilityRate(mtype, building) ==
  LET t == toLowerCase(mtype)
  IN  CASE t = "electric" -> Ok(NumOr(building.erate_perKwH, Zero))
        [] t = "water"    -> Ok(NumOr(building.wrate_perCbM, Zero))
        [] t = "lpg"      -> Ok(NumOr(building.lrate_perKg, Zero))
        [] OTHER          -> Unsupported

getMinConsumption(mtype, building) ==
  LET t == toLowerCase(mtype)
  IN  CASE t = "electric" -> Ok(NumOr(building.emin_con, Zero))
        [] t = "water"    -> Ok(NumOr(building.wmin_con, Zero))
        [] t = "lpg"      -> Ok(LPG_MIN_CON)
        [] OTHER          -> Unsupported

\* variant: a zero delta billed as zero (raw >= 0 instead of raw > 0)
computeUnitsOnly_nonNegative(meterType, meterMult, building, prevIdx, currIdx) ==
  LET t    == toLowerCase(meterType)
      mult == NumOr(meterMult, One)
      raw  == Mul(Sub(NumOr(currIdx, Zero), NumOr(prevIdx, Zero)), mult)
      min  == IF t = "electric" THEN NumOr(building.emin_con, Zero)
              ELSE IF t = "water" THEN NumOr(building.wmin_con, Zero) ELSE LPG_MIN_CON
  IN  IF t \in {"electric", "water", "lpg"}
      THEN Ok(round(IF Ge(raw, Zero) THEN raw ELSE min, 2))
      ELSE Unsupported

computeUnitsOnly(meterType, meterMult, building, prevIdx, currIdx) ==
  LET t    == toLowerCase(meterType)
      mult == NumOr(meterMult, One)
      prev == NumOr(prevIdx, Zero)
      curr == NumOr(currIdx, Zero)
      raw  == Mul(Sub(curr, prev), mult)
  IN  CASE t = "electric" ->
             LET min == NumOr(building.emin_con, Zero)
             IN  Ok(round(IF Gt(raw, Zero) THEN raw ELSE min, 2))
        [] t = "water" ->
             LET min == NumOr(building.wmin_con, Zero)
             IN  Ok(round(IF Gt(raw, Zero) THEN raw ELSE min, 2))
        [] t = "lpg" ->
             Ok(round(IF Gt(raw, Zero) THEN raw ELSE LPG_MIN_CON, 2))
        [] OTHER -> Unsupported

\* variant: withholding taken from the base instead of the VAT amount
applyTaxes_wtOnBase(base, vatRate, wtRate, forPenalty, penaltyRate) ==
  LET b     == NumOr(base, Zero)
      vat   == Mul(b, NumOr(vatRate, Zero))
      wt    == Mul(b, NumOr(wtRate, Zero))
      pen   == IF forPenalty THEN Mul(b, NumOr(penaltyRate, Zero)) ELSE Zero
      total == Sub(Add(Add(b, vat), pen), wt)
  IN  [vat |-> round(vat, 2), wt |-> round(wt, 2),
       penalty |-> round(pen, 2), total |-> round(total, 2)]

\* variant: withholding rounded up to the next cent
applyTaxes_wtCeil(base, vatRate, wtRate, forPenalty, penaltyRate) ==
  LET b     == NumOr(base, Zero)
      vat   == Mul(b, NumOr(vatRate, Zero))
      wt    == Mul(vat, NumOr(wtRate, Zero))
      pen   == IF forPenalty THEN Mul(b, NumOr(penaltyRate, Zero)) ELSE Zero
      total == Sub(Add(Add(b, vat), pen), wt)
  IN  [vat |-> round(vat, 2), wt |-> Q(MathCeil(Mul(wt, Hundred)), 100),
       penalty |-> round(pen, 2), total |-> round(total, 2)]

\* variant: the penalty charged whatever the tenant's for_penalty flag
applyTaxes_penaltyAlways(base, vatRate, wtRate, forPenalty, penaltyRate) ==
  LET b     == NumOr(base, Zero)
      vat   == Mul(b, NumOr(vatRate, Zero))
      wt    == Mul(vat, NumOr(wtRate, Zero))
      pen   == Mul(b, NumOr(penaltyRate, Zero))
      total == Sub(Add(Add(b, vat), pen), wt)
  IN  [vat |-> round(vat, 2), wt |-> round(wt, 2),
       penalty |-> round(pen, 2), total |-> round(total, 2)]

applyTaxes(base, vatRate, wtRate, forPenalty, penaltyRate) ==
  LET b     == NumOr(base, Zero)
      vat   == Mul(b, NumOr(vatRate, Zero))
      wt    == Mul(vat, NumOr(wtRate, Zero))
      pen   == IF forPenalty THEN Mul(b, NumOr(penaltyRate, Zero)) ELSE Zero
      total == Sub(Add(Add(b, vat), pen), wt)
  IN  [vat |-> round(vat, 2), wt |-> round(wt, 2),
       penalty |-> round(pen, 2), total |-> round(total, 2)]

\* the per-type rate picked by the t === 'electric' ? .e : t === 'water' ? .w : .l chain
knobFor(t, knob) ==
  IF t = "electric" THEN knob.e ELSE IF t = "water" THEN knob.w ELSE knob.l

computeChargesByType(mtype, mult, building, taxKnobs, prevIdx, currIdx, forPenalty, penaltyRate) ==
  LET t    == toLowerCase(mtype)
      rate == getUtilityRate(t, building)
  IN  IF ~rate.ok THEN rate
      ELSE
        LET vatR        == knobFor(t, taxKnobs.vat)
            wtR         == knobFor(t, taxKnobs.wt)
            consumption == computeUnitsOnly(t, mult, building, prevIdx, currIdx).value
            base        == Mul(consumption, rate.value)
            taxes       == applyTaxes(base, vatR, wtR, forPenalty, penaltyRate)
        IN  Ok([consumption |-> round(consumption, 2),
                base        |-> round(base, 2),
                vat         |-> taxes.vat,
                wt          |-> taxes.wt,
                penalty     |-> taxes.penalty,
                total       |-> taxes.total,
                rates       |-> [utility_rate |-> rate.value,
                                 markup_rate  |-> Zero,
                                 system_rate  |-> rate.value]])

\* variant: the markup reported but left out of the base
computeChargesByTypeWithMarkup_baseWithoutMarkup(mtype, mult, building, taxKnobs, prevIdx, currIdx, forPenalty, penaltyRate) ==
  LET t           == toLowerCase(mtype)
      utilityRate == getUtilityRate(t, building)
  IN  IF ~utilityRate.ok THEN utilityRate
      ELSE
        LET markup      == NumOr(building.markup_rate, Zero)
            systemRate  == Add(utilityRate.value, markup)
            vatR        == knobFor(t, taxKnobs.vat)
            wtR         == knobFor(t, taxKnobs.wt)
            consumption == computeUnitsOnly(t, mult, building, prevIdx, currIdx).value
            base        == Mul(consumption, utilityRate.value)
            taxes       == applyTaxes(base, vatR, wtR, forPenalty, penaltyRate)
        IN  Ok([consumption |-> round(consumption, 2),
                base        |-> round(base, 2),
                vat         |-> taxes.vat,
                wt          |-> taxes.wt,
                penalty     |-> taxes.penalty,
                total       |-> taxes.total,
                rates       |-> [utility_rate |-> utilityRate.value,
                                 markup_rate  |-> markup,
                                 system_rate  |-> systemRate]])

computeChargesByTypeWithMarkup(mtype, mult, building, taxKnobs, prevIdx, currIdx, forPenalty, penaltyRate) ==
  LET t           == toLowerCase(mtype)
      utilityRate == getUtilityRate(t, building)
  IN  IF ~utilityRate.ok THEN utilityRate
      ELSE
        LET markup      == NumOr(building.markup_rate, Zero)
            systemRate  == Add(utilityRate.value, markup)
            vatR        == knobFor(t, taxKnobs.vat)
            wtR         == knobFor(t, taxKnobs.wt)
            consumption == computeUnitsOnly(t, mult, building, prevIdx, currIdx).value
            base        == Mul(consumption, systemRate)
            taxes       == applyTaxes(base, vatR, wtR, forPenalty, penaltyRate)
        IN  Ok([consumption |-> round(consumption, 2),
                base        |-> round(base, 2),
                vat         |-> taxes.vat,
                wt          |-> taxes.wt,
                penalty     |-> taxes.penalty,
                total       |-> taxes.total,
                rates       |-> [utility_rate |-> utilityRate.value,
                                 markup_rate  |-> markup,
                                 system_rate  |-> systemRate]])

(***************************************************************************)
(* rocUtils.js helpers                                                     *)
(***************************************************************************)
ROC_LPG_MIN_CON == Zero

\* rocUtils round: a non-finite number gives 0 instead of null
rocRound(n, d) ==
  IF n = Null THEN Zero
  ELSE Q(MathRound(Mul(n, <<Pow10(d), 1>>)), Pow10(d))

\* Number(currIdx) - Number(prevIdx): NaN (Null here) when either is not a number
computeUnits(type, mult, building, prevIdx, currIdx) ==
  LET t   == toLowerCase(type)
      raw == IF prevIdx = Null \/ currIdx = Null THEN Null
             ELSE Mul(Sub(currIdx, prevIdx), NumOr(mult, One))
      pos == raw # Null /\ Gt(raw, Zero)
  IN  CASE t = "electric" ->
             LET min == NumOr(building.emin_con, Zero)
             IN  Ok(rocRound(IF pos THEN raw ELSE min, 2))
        [] t = "water" ->
             LET min == NumOr(building.wmin_con, Zero)
             IN  Ok(rocRound(IF pos THEN raw ELSE min, 2))
        [] t = "lpg" ->
             Ok(rocRound(IF pos THEN raw ELSE ROC_LPG_MIN_CON, 2))
        [] OTHER -> Err(400, "Unsupported meter type")

(***************************************************************************)
(* Calendar: a 'YYYY-MM-DD' string is the integer yyyymmdd, a Date object  *)
(* is its day number (days since 1970-01-01, UTC midnight)                 *)
(***************************************************************************)
Year(s)  == s \div 10000
Month(s) == (s \div 100) % 100
Day(s)   == s % 100

\* the day number of day d (carrying over) of the month mp (0 = March) in the
\* year yoe of the 400-year era
daysFromEra(era, yoe, doy, d) ==
  era * 146097 + yoe * 365 + (yoe \div 4) - (yoe \div 100) + doy - 719468 + (d - 1)

\* yp is the year counted from March, mp the month counted from March
daysFromCivil(yp, mp, d) == daysFromEra(yp \div 400, yp % 400, (153 * mp + 2) \div 5, d)

\* Date.UTC(y, m0, d) / DAY_MS with a 0-based month; months and days outside
\* their range carry over as in JavaScript
DateUTC(y, m0, d) ==
  daysFromCivil(IF (m0 % 12) + 1 <= 2 THEN y + (m0 \div 12) - 1 ELSE y + (m0 \div 12),
                IF (m0 % 12) + 1 > 2 THEN (m0 % 12) - 2 ELSE (m0 % 12) + 10, d)

\* the calendar fields from the March-based year y0, month m (1..12) and day d
civilFields(y0, m, d) == [y |-> y0 + (IF m <= 2 THEN 1 ELSE 0), m0 |-> m - 1, d |-> d]

civilFromMp(era, yoe, doy, mp) ==
  civilFields(yoe + era * 400, IF mp < 10 THEN mp + 3 ELSE mp - 9,
              doy - ((153 * mp + 2) \div 5) + 1)

civilFromDoy(era, yoe, doy) == civilFromMp(era, yoe, doy, (5 * doy + 2) \div 153)

civilFromYoe(era, doe, yoe) ==
  civilFromDoy(era, yoe, doe - (365 * yoe + (yoe \div 4) - (yoe \div 100)))

civilFromDoe(era, doe) ==
  civilFromYoe(era, doe,
    (doe - (doe \div 1460) + (doe \div 36524) - (doe \div 146096)) \div 365)

\* the calendar fields of a day number: getUTCFullYear, getUTCMonth (0-based),
\* getUTCDate
Civil(z) == civilFromDoe((z + 719468) \div 146097, (z + 719468) % 146097)

\* new Date(s + 'T00:00:00Z') for a calendar date s
fromYMD(s) == DateUTC(Year(s), Month(s) - 1, Day(s))

\* d.toISOString().slice(0, 10) from the calendar fields c
ymdOf(c) == c.y * 10000 + (c.m0 + 1) * 100 + c.d

ymd(z) == ymdOf(Civil(z))

\* a string that does not match /^\d{4}-\d{2}-\d{2}$/
Malformed == 0

isYMD(s) == s # Malformed

\* the three windows of the month whose end is the day number end; c holds
\* end.getUTCFullYear(), end.getUTCMonth() and end.getUTCDate()
\* variant: the year not carried back when the end date is in January
periodStringsOf_sameYear(end, c) ==
  LET prevMonth  == IF c.m0 = 0 THEN 11 ELSE c.m0 - 1
      pprevMonth == IF prevMonth = 0 THEN 11 ELSE prevMonth - 1
  IN  [curr    |-> [start |-> ymd(DateUTC(c.y, c.m0, 1)), end |-> ymd(end)],
       prev    |-> [start |-> ymd(DateUTC(c.y, prevMonth, 1)),
                    end   |-> ymd(DateUTC(c.y, prevMonth + 1, 1) - 1)],
       preprev |-> [start |-> ymd(DateUTC(c.y, pprevMonth, 1)),
                    end   |-> ymd(DateUTC(c.y, pprevMonth + 1, 1) - 1)]]

periodStringsOf(end, c) ==
  LET y          == c.y
      m          == c.m0
      currStart  == DateUTC(y, m, 1)
      currEnd    == end
      prevYear   == IF m = 0 THEN y - 1 ELSE y
      prevMonth  == IF m = 0 THEN 11 ELSE m - 1
      prevStart  == DateUTC(prevYear, prevMonth, 1)
      prevEnd    == DateUTC(prevYear, prevMonth + 1, 1) - 1
      pprevYear  == IF prevMonth = 0 THEN prevYear - 1 ELSE prevYear
      pprevMonth == IF prevMonth = 0 THEN 11 ELSE prevMonth - 1
      prePrevStart == DateUTC(pprevYear, pprevMonth, 1)
      prePrevEnd   == DateUTC(pprevYear, pprevMonth + 1, 1) - 1
  IN  [curr    |-> [start |-> ymd(currStart),    end |-> ymd(currEnd)],
       prev    |-> [start |-> ymd(prevStart),    end |-> ymd(prevEnd)],
       preprev |-> [start |-> ymd(prePrevStart), end |-> ymd(prePrevEnd)]]

getPeriodStrings(endDateStr) ==
  IF ~isYMD(endDateStr) THEN Err(400, "Invalid end_date format. Use YYYY-MM-DD.")
  ELSE Ok(periodStringsOf(fromYMD(endDateStr), Civil(fromYMD(endDateStr))))

\* no previous segment (null)
NoSegment == [start |-> 0, end |-> 0]

\* the two display segments for the day number end with calendar fields c
twoSegmentWindowOf(end, c, overallStart) ==
  LET endMonthStart == DateUTC(c.y, c.m0, 1)
      prevMonthEnd  == endMonthStart - 1
      whole         == Civil(overallStart).d = 1
  IN  [prev |-> IF whole THEN NoSegment
                ELSE [start |-> ymd(overallStart), end |-> ymd(prevMonthEnd)],
       curr |-> [start |-> ymd(endMonthStart), end |-> ymd(end)]]

\* oneMonthEarlier = Date.UTC(year, month - 1, date); overallStart is the day after
getTwoSegmentWindow(endDateStr) ==
  LET c == Civil(fromYMD(endDateStr))
  IN  twoSegmentWindowOf(fromYMD(endDateStr), c, DateUTC(c.y, c.m0 - 1, c.d) + 1)

(***************************************************************************)
(* rocUtils.js period helpers                                              *)
(***************************************************************************)
\* the 'YYYY-MM' prefix of a date string, as the integer yyyymm
monthOf(s) == s \div 100

\* dtUTC(Y, M0, 1) .. dtUTC(Y, M0 + 1, 0) for M0 = month - monthsBack
monthSpanFor(dateStr, monthsBack) ==
  LET c  == Civil(fromYMD(dateStr))
      M0 == c.m0 - monthsBack
  IN  [start |-> ymd(DateUTC(c.y, M0, 1)),
       end   |-> ymd(DateUTC(c.y, M0 + 1, 0)),
       month |-> monthOf(ymd(DateUTC(c.y, M0, 1)))]

ensureValidRange(startDate, endDate) ==
  IF ~isYMD(startDate) \/ ~isYMD(endDate)
  THEN Err(400, "Invalid date(s). Use YYYY-MM-DD for both period-start and period-end.")
  ELSE IF fromYMD(endDate) < fromYMD(startDate)
  THEN Err(400, "period-end must be on or after period-start")
  ELSE Ok([start |-> ymd(fromYMD(startDate)), end |-> ymd(fromYMD(endDate)),
           days |-> (fromYMD(endDate) - fromYMD(startDate)) + 1])

addDays(d, n) == d + n

\* variant: the previous window one day longer (prevStart = prevEnd - days)
previousWindowOf_longer(r) ==
  IF ~r.ok THEN r
  ELSE LET prevEnd == addDays(fromYMD(r.value.start), -1)
       IN  Ok([start |-> ymd(addDays(prevEnd, -r.value.days)), end |-> ymd(prevEnd)])

\* the window of r.days days that ends the day before r.start, for a range r
\* accepted by ensureValidRange (its Error propagates)
previousWindowOf(r) ==
  IF ~r.ok THEN r
  ELSE LET prevEnd == addDays(fromYMD(r.value.start), -1)
       IN  Ok([start |-> ymd(addDays(prevEnd, -(r.value.days - 1))), end |-> ymd(prevEnd)])

previousWindowSameLength(startDate, endDate) ==
  previousWindowOf(ensureValidRange(startDate, endDate))

(***************************************************************************)
(* Reading locator.  A reading row is [meter_id, date, value]; the query   *)
(* is findOne ... WHERE meter_id AND date in [start, end] ORDER BY date    *)
(* DESC, so with several rows on the latest date the database may return   *)
(* any of them: the operator gives the set of possible answers.            *)
(***************************************************************************)
\* null: no row
NoRow == [found |-> FALSE]

\* variant: the end of the window exclusive (Op.lt instead of Op.lte)
getMaxReadingInPeriod_exclusiveEnd(meter_id, startStr, endStr) ==
  LET rows == {r \in readingTbl : /\ r.meter_id = meter_id
                                  /\ r.date >= startStr
                                  /\ r.date < endStr}
      top  == {r \in rows : \A q \in rows : q.date <= r.date}
  IN  IF rows = {} THEN {NoRow}
      ELSE {[found |-> TRUE, value |-> NumOr(r.value, Zero), date |-> r.date] : r \in top}

getMaxReadingInPeriod(meter_id, startStr, endStr) ==
  LET rows == {r \in readingTbl : /\ r.meter_id = meter_id
                                  /\ r.date >= startStr
                                  /\ r.date <= endStr}
      top  == {r \in rows : \A q \in rows : q.date <= r.date}
  IN  IF rows = {} THEN {NoRow}
      ELSE {[found |-> TRUE, value |-> NumOr(r.value, Zero), date |-> r.date] : r \in top}

rocGetMaxReadingInPeriod(meter_id, start, end) ==
  LET rows == {r \in readingTbl : /\ r.meter_id = meter_id
                                  /\ r.date >= start
                                  /\ r.date <= end}
      top  == {r \in rows : \A q \in rows : q.date <= r.date}
  IN  IF rows = {} THEN {NoRow}
      ELSE {[found |-> TRUE, value |-> NumOr(r.value, Zero), date |-> r.date] : r \in top}

(***************************************************************************)
(* Catalog lookups and the per-meter billing entry points                  *)
(***************************************************************************)
\* Model.findOne({ where: { pk: key } }): the row, or NoRow for null
findOne(tbl, key) == IF key \in DOMAIN tbl THEN tbl[key] ELSE NoRow

getTenantTaxKnobs(tenant) ==
  LET vatRow == IF tenant.vat_code # None THEN findOne(vatTbl, tenant.vat_code) ELSE NoRow
      wtRow  == IF tenant.wt_code # None THEN findOne(wtTbl, tenant.wt_code) ELSE NoRow
  IN  [vat |-> [e |-> normalizePct(IF vatRow = NoRow THEN Zero ELSE NumOr(vatRow.e_vat, Zero)),
                w |-> normalizePct(IF vatRow = NoRow THEN Zero ELSE NumOr(vatRow.w_vat, Zero)),
                l |-> normalizePct(IF vatRow = NoRow THEN Zero ELSE NumOr(vatRow.l_vat, Zero))],
       wt  |-> [e |-> normalizePct(IF wtRow = NoRow THEN Zero ELSE NumOr(wtRow.e_wt, Zero)),
                w |-> normalizePct(IF wtRow = NoRow THEN Zero ELSE NumOr(wtRow.w_wt, Zero)),
                l |-> normalizePct(IF wtRow = NoRow THEN Zero ELSE NumOr(wtRow.l_wt, Zero))]]

\* variant: the restriction of the caller not enforced
scopeDenied_open(restrictToBuildingIds, building_id) == FALSE

\* Array.isArray(restrictToBuildingIds) && restrictToBuildingIds.length
\*   && !restrictToBuildingIds.includes(String(building_id))
scopeDenied(restrictToBuildingIds, building_id) ==
  /\ restrictToBuildingIds.isArray
  /\ Len(restrictToBuildingIds.ids) > 0
  /\ \A i \in 1..Len(restrictToBuildingIds.ids) : restrictToBuildingIds.ids[i] # building_id

\* variant: only the current window is required
requireReadings_currOnly(indexPeriods, prevMax, currMax) ==
  IF ~currMax.found THEN Err(400, "No readings for current window")
  ELSE Ok(TRUE)

\* the two window checks after the reading lookups
requireReadings(indexPeriods, prevMax, currMax) ==
  IF ~currMax.found THEN Err(400, "No readings for current window")
  ELSE IF ~prevMax.found THEN Err(400, "No readings for previous window")
  ELSE Ok(TRUE)

\* the value of a located reading; undefined fields read as NaN
valueOf(row) == IF row.found THEN row.value ELSE Null

\* the returned structure, from the charges bill of the meter (an Error of the
\* charge function propagates)
billingResult(meter, stall, building, tenant, endDate, prevMax, currMax, now, bill) ==
  IF ~bill.ok THEN bill
  ELSE
    LET displayPeriods == getTwoSegmentWindow(endDate)
        mtype == toLowerCase(meter.meter_type)
        mult  == NumOr(meter.meter_mult, One)
        prevUnits == computeUnitsOnly(mtype, mult, building,
                       Sub(NumOr(valueOf(prevMax), Zero), mult),
                       valueOf(prevMax)).value
        currUnits == bill.value.consumption
        rateOfChangePercent ==
          IF Gt(prevUnits, Zero)
          THEN round(Mul(Div(Sub(currUnits, prevUnits), prevUnits), Hundred), 0)
          ELSE Zero
    IN  Ok([meter  |-> [meter_id |-> meter.meter_id,
                        meter_type |-> mtype, meter_mult |-> mult],
            stall  |-> [stall_id |-> stall.stall_id,
                        building_id |-> stall.building_id,
                        tenant_id |-> stall.tenant_id],
            tenant |-> [tenant_id |-> tenant.tenant_id,
                        vat_code |-> tenant.vat_code,
                        wt_code |-> tenant.wt_code,
                        for_penalty |-> tenant.for_penalty],
            period |-> [previous |-> displayPeriods.prev,
                        current |-> displayPeriods.curr],
            indices |-> [prev_index |-> round(valueOf(prevMax), 2),
                         curr_index |-> round(valueOf(currMax), 2)],
            billing |-> bill.value,
            totals  |-> [consumption |-> bill.value.consumption,
                         base |-> bill.value.base, vat |-> bill.value.vat,
                         wt |-> bill.value.wt, penalty |-> bill.value.penalty,
                         total |-> bill.value.total],
            rate_of_change_percent |-> rateOfChangePercent,
            generated_at |-> now])

\* the part of the entry points after the tenant lookup, shared by the
\* standard and the with-markup variant (markup selects the charge function)
billFrom(meter, stall, building, tenant, req, prevMax, currMax, now, markup) ==
  LET taxKnobs     == getTenantTaxKnobs(tenant)
      forPenalty   == tenant.for_penalty
      penaltyRate  == normalizePct(req.penaltyRatePct)
      indexPeriods == getPeriodStrings(req.endDate)
      mtype        == toLowerCase(meter.meter_type)
      mult         == NumOr(meter.meter_mult, One)
  IN  IF ~indexPeriods.ok THEN indexPeriods
      ELSE IF ~requireReadings(indexPeriods.value, prevMax, currMax).ok
      THEN requireReadings(indexPeriods.value, prevMax, currMax)
      ELSE billingResult(meter, stall, building, tenant, req.endDate, prevMax, currMax, now,
             IF markup
             THEN computeChargesByTypeWithMarkup(mtype, mult, building, taxKnobs,
                    valueOf(prevMax), valueOf(currMax), forPenalty, penaltyRate)
             ELSE computeChargesByType(mtype, mult, building, taxKnobs,
                    valueOf(prevMax), valueOf(currMax), forPenalty, penaltyRate))

\* req = [meterId, endDate, penaltyRatePct, restrictToBuildingIds]; prevMax and
\* currMax are the rows the two reading queries return, now the wall clock
billMeter(req, prevMax, currMax, now, markup) ==
  LET meter == findOne(meterTbl, req.meterId)
  IN  IF meter = NoRow THEN Err(404, "Meter not found")
      ELSE
        LET stall == findOne(stallTbl, meter.stall_id)
        IN  IF stall = NoRow THEN Err(404, "Stall not found for this meter")
            ELSE IF scopeDenied(req.restrictToBuildingIds, stall.building_id)
                 THEN Err(403, "No access to this record's building")
            ELSE
              LET building == findOne(buildingTbl, stall.building_id)
              IN  IF building = NoRow THEN Err(404, "Building not found")
                  ELSE
                    LET tenant == findOne(tenantTbl, stall.tenant_id)
                    IN  IF tenant = NoRow THEN Err(404, "Tenant not found")
                        ELSE billFrom(meter, stall, building, tenant, req,
                                      prevMax, currMax, now, markup)

computeBillingForMeter(req, prevMax, currMax, now) ==
  billMeter(req, prevMax, currMax, now, FALSE)

computeBillingForMeterWithMarkup(req, prevMax, currMax, now) ==
  billMeter(req, prevMax, currMax, now, TRUE)

(***************************************************************************)
(* Catalog rows and the inputs the operations are exercised on             *)
(***************************************************************************)
\* building_list rows: the seeded BLDG-1 and a building with fractional rates
BLDG1 == [building_id |-> "BLDG-1",
          erate_perKwH |-> <<10, 1>>, emin_con |-> <<1, 1>>,
          wrate_perCbM |-> <<93, 1>>, wmin_con |-> <<3, 1>>,
          lrate_perKg  |-> <<88, 1>>,
          markup_rate  |-> <<3, 2>>,  penalty_rate |-> <<1, 5>>]
BLDG2 == [building_id |-> "BLDG-2",
          erate_perKwH |-> <<33, 100>>, emin_con |-> Zero,
          wrate_perCbM |-> <<5, 2>>,    wmin_con |-> <<1, 2>>,
          lrate_perKg  |-> <<1, 4>>,
          markup_rate  |-> Zero,        penalty_rate |-> <<5, 1>>]
Buildings == {BLDG1, BLDG2}

\* the tenant tax knobs (fractions) the charge functions are exercised on
KnobSets == {[vat |-> [e |-> <<3, 25>>, w |-> <<3, 25>>, l |-> <<1, 10>>],
              wt  |-> [e |-> <<1, 50>>, w |-> <<1, 2>>,  l |-> Zero]],
             [vat |-> [e |-> Zero, w |-> Zero, l |-> Zero],
              wt  |-> [e |-> Zero, w |-> Zero, l |-> Zero]]}

MeterTypes == {"electric", "water", "lpg", "WATER", "steam"}

\* meter_mult is any finite number rounded to 2 decimals (0 and negatives included)
MultVals == {Zero, <<1, 2>>, One, <<-1, 1>>, <<3, 2>>}

\* index readings: non-negative, 2 decimals
MaxIdxCents == 3
IdxVals == {Q(k, 100) : k \in 0..MaxIdxCents} \cup {<<10, 1>>, <<60, 1>>}

\* monetary bases for the tax cascade
MaxBaseCents == 30
BaseVals == {Q(k, 100) : k \in 0..MaxBaseCents} \cup {<<1000, 1>>, <<5, 1000>>}

VatFractions == {Zero, <<3, 25>>, <<1, 10>>}
WtFractions  == {Zero, <<1, 50>>, <<1, 2>>, One, <<3, 2>>}
PenFractions == {Zero, <<1, 50>>, <<3, 20>>}

\* stored percentages and request penalty percentages, points or fractions
PctVals == {Null, Zero, <<3, 25>>, <<1, 2>>, <<99, 100>>, One, <<3, 2>>,
            <<2, 1>>, <<12, 1>>, <<100, 1>>, <<150, 1>>}

(***************************************************************************)
(* The calculators applied to chosen inputs.  `last` holds the operation   *)
(* in hand, its arguments and its outcome; the caller takes the outcome    *)
(* (Return) before the next operation starts.                              *)
(***************************************************************************)
\* no operation in hand
Idle == [op |-> "none"]

Return ==
  /\ last # Idle
  /\ last' = Idle
  /\ UNCHANGED <<catalog, stored, readingTbl>>

CalcUnitsOnly ==
  /\ last = Idle
  /\ \E t \in MeterTypes, mult \in MultVals, b \in Buildings,
     prev \in IdxVals, curr \in IdxVals :
    /\ last' = [op |-> "computeUnitsOnly", type |-> t, mult |-> mult,
                building |-> b, prevIdx |-> prev, currIdx |-> curr,
                result |-> computeUnitsOnly(t, mult, b, prev, curr)]
    /\ UNCHANGED <<catalog, stored, readingTbl>>

CalcUnits ==
  /\ last = Idle
  /\ \E t \in MeterTypes, mult \in MultVals, b \in Buildings,
     prev \in IdxVals, curr \in IdxVals :
    /\ last' = [op |-> "computeUnits", type |-> t, mult |-> mult,
                building |-> b, prevIdx |-> prev, currIdx |-> curr,
                result |-> computeUnits(t, mult, b, prev, curr)]
    /\ UNCHANGED <<catalog, stored, readingTbl>>

CalcNormalizePct ==
  /\ last = Idle
  /\ \E v \in PctVals :
    /\ last' = [op |-> "normalizePct", v |-> v, result |-> normalizePct(v)]
    /\ UNCHANGED <<catalog, stored, readingTbl>>

CalcApplyTaxes ==
  /\ last = Idle
  /\ \E base \in BaseVals, vatRate \in VatFractions, wtRate \in WtFractions,
     forPenalty \in BOOLEAN, penaltyRate \in PenFractions :
    /\ last' = [op |-> "applyTaxes", base |-> base, vatRate |-> vatRate,
                wtRate |-> wtRate, forPenalty |-> forPenalty,
                penaltyRate |-> penaltyRate,
                result |-> applyTaxes(base, vatRate, wtRate, forPenalty, penaltyRate)]
    /\ UNCHANGED <<catalog, stored, readingTbl>>

CalcChargesByType ==
  /\ last = Idle
  /\ \E t \in MeterTypes, mult \in MultVals, b \in Buildings, k \in KnobSets,
     prev \in IdxVals, curr \in IdxVals,
     forPenalty \in BOOLEAN, penaltyRate \in PenFractions :
    /\ last' = [op |-> "computeChargesByType", type |-> t, mult |-> mult,
                building |-> b, taxKnobs |-> k, prevIdx |-> prev, currIdx |-> curr,
                forPenalty |-> forPenalty, penaltyRate |-> penaltyRate,
                result |-> computeChargesByType(t, mult, b, k, prev, curr,
                                                forPenalty, penaltyRate)]
    /\ UNCHANGED <<catalog, stored, readingTbl>>

CalcChargesByTypeWithMarkup ==
  /\ last = Idle
  /\ \E t \in MeterTypes, mult \in MultVals, b \in Buildings, k \in KnobSets,
     prev \in IdxVals, curr \in IdxVals,
     forPenalty \in BOOLEAN, penaltyRate \in PenFractions :
    /\ last' = [op |-> "computeChargesByTypeWithMarkup", type |-> t, mult |-> mult,
                building |-> b, taxKnobs |-> k, prevIdx |-> prev, currIdx |-> curr,
                forPenalty |-> forPenalty, penaltyRate |-> penaltyRate,
                result |-> computeChargesByTypeWithMarkup(t, mult, b, k, prev, curr,
                                                          forPenalty, penaltyRate)]
    /\ UNCHANGED <<catalog, stored, readingTbl>>

\* end dates at month and year boundaries, in leap and common years, and the
\* malformed string
CalDates == {Malformed, 20240315, 20240229, 20240131, 20240101, 20230228,
             20231231, 20230331, 21000301, 20000331}

\* the dates ranges are formed from
RangeDates == {Malformed, 20231231, 20240101, 20240229, 20240301, 20240315}

CalcGetPeriodStrings ==
  /\ last = Idle
  /\ \E endDate \in CalDates :
       last' = [op |-> "getPeriodStrings", endDate |-> endDate,
                result |-> getPeriodStrings(endDate)]
  /\ UNCHANGED <<catalog, stored, readingTbl>>

\* monthSpanFor is called on dates already matched against the date pattern
CalcMonthSpanFor ==
  /\ last = Idle
  /\ \E dateStr \in CalDates \ {Malformed}, monthsBack \in {0, 1, 2} :
       last' = [op |-> "monthSpanFor", dateStr |-> dateStr, monthsBack |-> monthsBack,
                result |-> monthSpanFor(dateStr, monthsBack)]
  /\ UNCHANGED <<catalog, stored, readingTbl>>

CalcEnsureValidRange ==
  /\ last = Idle
  /\ \E startDate \in RangeDates, endDate \in RangeDates :
       last' = [op |-> "ensureValidRange", startDate |-> startDate, endDate |-> endDate,
                result |-> ensureValidRange(startDate, endDate)]
  /\ UNCHANGED <<catalog, stored, readingTbl>>

CalcPreviousWindowSameLength ==
  /\ last = Idle
  /\ \E startDate \in RangeDates, endDate \in RangeDates :
       last' = [op |-> "previousWindowSameLength", startDate |-> startDate,
                endDate |-> endDate,
                result |-> previousWindowSameLength(startDate, endDate)]
  /\ UNCHANGED <<catalog, stored, readingTbl>>

EmptyTbl == [k \in {} |-> NoRow]

\* the requests that may be in flight at once, none of them begun
MaxPosts == 2
Posters == 1..MaxPosts
NoPost == [pc |-> "none"]
NoPosts == [p \in Posters |-> NoPost]

InitCalc ==
  /\ meterTbl = EmptyTbl /\ stallTbl = EmptyTbl /\ tenantTbl = EmptyTbl
  /\ buildingTbl = EmptyTbl /\ vatTbl = EmptyTbl /\ wtTbl = EmptyTbl
  /\ readingTbl = {}
  /\ last = Idle
  /\ billingTbl = {} /\ posts = NoPosts

NextCalc ==
  \/ CalcUnitsOnly
  \/ CalcUnits
  \/ CalcNormalizePct
  \/ CalcApplyTaxes
  \/ CalcChargesByType
  \/ CalcChargesByTypeWithMarkup
  \/ CalcGetPeriodStrings
  \/ CalcMonthSpanFor
  \/ CalcEnsureValidRange
  \/ CalcPreviousWindowSameLength
  \/ Return

SpecCalc == InitCalc /\ [][NextCalc]_vars

(***************************************************************************)
(* The catalog, the readings and the billing entry points                  *)
(***************************************************************************)
MeterIds == {"MTR-1", "MTR-2"}

BaseMeters ==
  [m \in MeterIds |->
     IF m = "MTR-1"
     THEN [meter_id |-> "MTR-1", meter_type |-> "electric", meter_mult |-> One,
           stall_id |-> "STL-1"]
     ELSE [meter_id |-> "MTR-2", meter_type |-> "water", meter_mult |-> <<1, 2>>,
           stall_id |-> "STL-2"]]

BaseStalls ==
  [st \in {"STL-1", "STL-2"} |->
     IF st = "STL-1"
     THEN [stall_id |-> "STL-1", building_id |-> "BLDG-1", tenant_id |-> "TNT-1"]
     ELSE [stall_id |-> "STL-2", building_id |-> "BLDG-2", tenant_id |-> "TNT-2"]]

BaseTenants ==
  [t \in {"TNT-1", "TNT-2"} |->
     IF t = "TNT-1"
     THEN [tenant_id |-> "TNT-1", vat_code |-> "VAT-12", wt_code |-> "WT-2",
           for_penalty |-> TRUE]
     ELSE [tenant_id |-> "TNT-2", vat_code |-> "VAT-F", wt_code |-> None,
           for_penalty |-> FALSE]]

BaseBuildings ==
  [b \in {"BLDG-1", "BLDG-2"} |-> IF b = "BLDG-1" THEN BLDG1 ELSE BLDG2]

\* VAT / WT codes store percentage points (12 for 12%) or fractions (0.12)
BaseVat ==
  [c \in {"VAT-12", "VAT-F"} |->
     IF c = "VAT-12" THEN [e_vat |-> <<12, 1>>, w_vat |-> <<12, 1>>, l_vat |-> One]
     ELSE [e_vat |-> <<3, 25>>, w_vat |-> <<3, 2>>, l_vat |-> Zero]]

BaseWt ==
  [c \in {"WT-2"} |-> [e_wt |-> <<2, 1>>, w_wt |-> <<1, 2>>, l_wt |-> <<150, 1>>]]

\* t without the key k
Without(t, k) == [x \in DOMAIN t \ {k} |-> t[x]]

BaseCatalog == [meters |-> BaseMeters, stalls |-> BaseStalls, tenants |-> BaseTenants,
                buildings |-> BaseBuildings, vat |-> BaseVat, wt |-> BaseWt]

\* catalogs the engine provides for.  The routes can leave behind: a vacant
\* stall (tenant_id NULL), a deleted tenant, a deleted meter, a multiplier 0
\* and a dangling WT code.  Rows the routes refuse to produce but the engine
\* still guards against (tables written outside the routes): a deleted
\* building, a deleted stall under a meter, a meter type in capitals or
\* outside electric / water / lpg.
Catalogs ==
  { BaseCatalog,
    [BaseCatalog EXCEPT !.stalls["STL-2"].tenant_id = None,
                        !.meters["MTR-1"].meter_type = "LPG",
                        !.meters["MTR-1"].meter_mult = Zero,
                        !.wt = Without(BaseWt, "WT-2")],
    [BaseCatalog EXCEPT !.tenants = Without(BaseTenants, "TNT-1"),
                        !.buildings = Without(BaseBuildings, "BLDG-2")],
    [BaseCatalog EXCEPT !.stalls = Without(BaseStalls, "STL-2"),
                        !.meters["MTR-1"].meter_type = "steam"],
    [BaseCatalog EXCEPT !.meters = Without(BaseMeters, "MTR-2")] }

\* reading dates around the month boundaries of the billing windows
ReadingDates == {20240229, 20240301, 20240315}
ReadingVals  == {<<10, 1>>, <<25, 2>>}
MaxReadings  == 2

EndDates == {20240315, 20240229, Malformed}

\* ?penalty_rate= of the request: absent (0), 2 (percent points), 0.15 (fraction)
PenaltyPcts == {Zero, <<2, 1>>, <<3, 20>>}

\* req.restrictToBuildingIds: null, [], ['BLDG-1']
Unrestricted == [isArray |-> FALSE, ids |-> << >>]
Restrictions == {Unrestricted, [isArray |-> TRUE, ids |-> << >>],
                 [isArray |-> TRUE, ids |-> <<"BLDG-1">>]}

Requests == [meterId : MeterIds, endDate : EndDates, penaltyRatePct : PenaltyPcts,
             restrictToBuildingIds : Restrictions]

\* the wall clock (generated_at)
MaxInstant == 2
Instants == 1..MaxInstant

\* POST /readings: one reading per meter per date, for an existing meter
PostReading ==
  /\ last = Idle
  /\ Cardinality(readingTbl) < MaxReadings
  /\ \E m \in DOMAIN meterTbl, d \in ReadingDates, v \in ReadingVals :
       /\ \A r \in readingTbl : ~(r.meter_id = m /\ r.date = d)
       /\ readingTbl' = readingTbl \cup {[meter_id |-> m, date |-> d, value |-> v]}
  /\ UNCHANGED <<catalog, stored, last>>

\* PUT /readings/:id with only meter_id in the body: the reading moves to the
\* other meter without the one-per-date check
PutReadingMeter ==
  /\ last = Idle
  /\ \E r \in readingTbl, m \in MeterIds :
       /\ m # r.meter_id
       /\ readingTbl' = (readingTbl \ {r}) \cup {[r EXCEPT !.meter_id = m]}
  /\ UNCHANGED <<catalog, stored, last>>

\* windows probed: across a month boundary, a single day, and an empty one
LocateWindows == {<<20240229, 20240301>>, <<20240301, 20240315>>,
                  <<20240229, 20240229>>, <<20240301, 20240229>>}

LocateReading ==
  /\ last = Idle
  /\ \E m \in MeterIds, w \in LocateWindows :
       \E row \in getMaxReadingInPeriod(m, w[1], w[2]) :
         last' = [op |-> "getMaxReadingInPeriod", meter_id |-> m,
                  start |-> w[1], end |-> w[2], result |-> row]
  /\ UNCHANGED <<catalog, stored, readingTbl>>

RocLocateReading ==
  /\ last = Idle
  /\ \E m \in MeterIds, w \in LocateWindows :
       \E row \in rocGetMaxReadingInPeriod(m, w[1], w[2]) :
         last' = [op |-> "rocGetMaxReadingInPeriod", meter_id |-> m,
                  start |-> w[1], end |-> w[2], result |-> row]
  /\ UNCHANGED <<catalog, stored, readingTbl>>

\* the answers a reading query of a billing call can get for window w of
\* the periods p (no query is made when the end date is malformed)
rowsIn(meterId, p, which) ==
  IF ~p.ok THEN {NoRow}
  ELSE getMaxReadingInPeriod(meterId, p.value[which].start, p.value[which].end)

windowRows(req, which) == rowsIn(req.meterId, getPeriodStrings(req.endDate), which)

ComputeBillingForMeter ==
  /\ last = Idle
  /\ \E req \in Requests, now \in Instants :
       \E prevMax \in windowRows(req, "prev"), currMax \in windowRows(req, "curr") :
         last' = [op |-> "computeBillingForMeter", req |-> req,
                  result |-> computeBillingForMeter(req, prevMax, currMax, now)]
  /\ UNCHANGED <<catalog, stored, readingTbl>>

ComputeBillingForMeterWithMarkup ==
  /\ last = Idle
  /\ \E req \in Requests, now \in Instants :
       \E prevMax \in windowRows(req, "prev"), currMax \in windowRows(req, "curr") :
         last' = [op |-> "computeBillingForMeterWithMarkup", req |-> req,
                  result |-> computeBillingForMeterWithMarkup(req, prevMax, currMax, now)]
  /\ UNCHANGED <<catalog, stored, readingTbl>>

\* a second invocation with the arguments of the call just made, over the
\* same readings and catalog; the clock has its own value at each call
ComputeBillingForMeterAgain ==
  /\ last # Idle
  /\ last.op = "computeBillingForMeter"
  /\ \E now \in Instants :
       \E prevMax \in windowRows(last.req, "prev"), currMax \in windowRows(last.req, "curr") :
         last' = [op |-> "computeBillingForMeterAgain", req |-> last.req,
                  first |-> last.result,
                  result |-> computeBillingForMeter(last.req, prevMax, currMax, now)]
  /\ UNCHANGED <<catalog, stored, readingTbl>>

Init ==
  /\ \E c \in Catalogs :
       /\ meterTbl = c.meters /\ stallTbl = c.stalls /\ tenantTbl = c.tenants
       /\ buildingTbl = c.buildings /\ vatTbl = c.vat /\ wtTbl = c.wt
  /\ readingTbl = {}
  /\ last = Idle
  /\ billingTbl = {} /\ posts = NoPosts

Next ==
  \/ PostReading
  \/ PutReadingMeter
  \/ LocateReading
  \/ RocLocateReading
  \/ CalcNormalizePct
  \/ ComputeBillingForMeter
  \/ ComputeBillingForMeterWithMarkup
  \/ ComputeBillingForMeterAgain
  \/ Return

Spec == Init /\ [][Next]_vars

(***************************************************************************)
(* Batch billing: tenant and building scope                                *)
(***************************************************************************)
TotalTypes == {"electric", "water", "lpg"}

ZeroTotals == [base |-> Zero, vat |-> Zero, wt |-> Zero, penalty |-> Zero, total |-> Zero]

\* results, totals_by_type and grand_totals before the loop
emptyBatch ==
  [meters |-> << >>, totals_by_type |-> [k \in TotalTypes |-> ZeroTotals],
   grand_totals |-> ZeroTotals]

\* t.X += b.X for base, vat, wt, penalty, total
addBilling(t, b) ==
  [base |-> Add(t.base, b.base), vat |-> Add(t.vat, b.vat), wt |-> Add(t.wt, b.wt),
   penalty |-> Add(t.penalty, b.penalty), total |-> Add(t.total, b.total)]

roundTotals(t) ==
  [base |-> round(t.base, 2), vat |-> round(t.vat, 2), wt |-> round(t.wt, 2),
   penalty |-> round(t.penalty, 2), total |-> round(t.total, 2)]

\* variant: the grand totals assigned, not added (= for +=)
accumulate_assign(acc, r) ==
  [meters |-> Append(acc.meters, r),
   totals_by_type |-> [acc.totals_by_type EXCEPT
                         ![r.meter.meter_type] = addBilling(@, r.billing)],
   grand_totals |-> addBilling(ZeroTotals, r.billing)]

\* results.push(r) and the += lines of the loop body
accumulate(acc, r) ==
  [meters |-> Append(acc.meters, r),
   totals_by_type |-> [acc.totals_by_type EXCEPT
                         ![r.meter.meter_type] = addBilling(@, r.billing)],
   grand_totals |-> addBilling(acc.grand_totals, r.billing)]

\* the rounding after the loop and the returned object
finishBatch(acc) ==
  [meters |-> acc.meters,
   totals_by_type |-> [k \in TotalTypes |-> roundTotals(acc.totals_by_type[k])],
   grand_totals |-> roundTotals(acc.grand_totals)]

\* the request of the per-meter call made for meter m of a batch request
meterRequest(m, req) ==
  [meterId |-> m, endDate |-> req.endDate, penaltyRatePct |-> req.penaltyRatePct,
   restrictToBuildingIds |-> req.restrictToBuildingIds]

\* the outcomes of the per-meter call (one per answer of its reading queries)
meterResults(mreq, now, markup) ==
  {billMeter(mreq, prevMax, currMax, now, markup) :
     prevMax \in windowRows(mreq, "prev"), currMax \in windowRows(mreq, "curr")}

\* the rows of Meter.findAll in the orders the database may return them
RowOrders(S) ==
  {o \in [1..Cardinality(S) -> S] : \A i, j \in 1..Cardinality(S) : i # j => o[i] # o[j]}

\* the end of a batch call: its result (or Error) and the number of per-meter
\* calls that had returned or thrown a skipped Error before it
BatchEnd(result, computed) == [result |-> result, computed |-> computed]

\* the loop of computeBillingForTenant from its i-th meter on: the first
\* Error of a per-meter call ends the batch call
RECURSIVE tenantLoop(_, _, _, _, _, _)
tenantLoop(meters, i, acc, req, now, markup) ==
  IF i > Len(meters) THEN {BatchEnd(Ok(finishBatch(acc)), Len(meters))}
  ELSE UNION {IF r.ok
              THEN tenantLoop(meters, i + 1, accumulate(acc, r.value), req, now, markup)
              ELSE {BatchEnd(r, i - 1)} :
              r \in meterResults(meterRequest(meters[i], req), now, markup)}

\* variant: a 'Tenant not found' Error ends the building loop like any other
buildingLoop_noSkip(meters, i, acc, req, now, markup) ==
  tenantLoop(meters, i, acc, req, now, markup)

\* the loop of computeBillingForBuilding from its i-th meter on: an Error
\* with the message 'tenant not found' (in any case) is skipped, any other
\* Error ends the batch call
RECURSIVE buildingLoop(_, _, _, _, _, _)
buildingLoop(meters, i, acc, req, now, markup) ==
  IF i > Len(meters) THEN {BatchEnd(Ok(finishBatch(acc)), Len(meters))}
  ELSE UNION {IF r.ok
              THEN buildingLoop(meters, i + 1, accumulate(acc, r.value), req, now, markup)
              ELSE IF r.message = "Tenant not found"
              THEN buildingLoop(meters, i + 1, acc, req, now, markup)
              ELSE {BatchEnd(r, i - 1)} :
              r \in meterResults(meterRequest(meters[i], req), now, markup)}

\* Stall.findAll({ where: { <column>: id } }) as the set of stall ids
stallsWhere(column, id) == {st \in DOMAIN stallTbl : stallTbl[st][column] = id}

\* Meter.findAll({ where: { stall_id: { [Op.in]: stallIds } } })
metersIn(stallIds) == {m \in DOMAIN meterTbl : meterTbl[m].stall_id \in stallIds}

\* req = [tenantId, endDate, penaltyRatePct, restrictToBuildingIds]
tenantBatch(req, now, markup) ==
  IF stallsWhere("tenant_id", req.tenantId) = {}
  THEN {BatchEnd(Ok(emptyBatch), 0)}
  ELSE UNION {tenantLoop(meters, 1, emptyBatch, req, now, markup) :
                meters \in RowOrders(metersIn(stallsWhere("tenant_id", req.tenantId)))}

computeBillingForTenant(req, now) == tenantBatch(req, now, FALSE)

computeBillingForTenantWithMarkup(req, now) == tenantBatch(req, now, TRUE)

\* variant: an empty allow-list denies every building (no length test)
buildingBatch_emptyDenies(req, now, markup) ==
  IF /\ req.restrictToBuildingIds.isArray
     /\ \A i \in 1..Len(req.restrictToBuildingIds.ids) :
          req.restrictToBuildingIds.ids[i] # req.buildingId
  THEN {BatchEnd(Err(403, "No access to this building"), 0)}
  ELSE UNION {buildingLoop(meters, 1, emptyBatch, req, now, markup) :
                meters \in RowOrders(metersIn(stallsWhere("building_id", req.buildingId)))}

\* req = [buildingId, endDate, penaltyRatePct, restrictToBuildingIds]
buildingBatch(req, now, markup) ==
  IF scopeDenied(req.restrictToBuildingIds, req.buildingId)
  THEN {BatchEnd(Err(403, "No access to this building"), 0)}
  ELSE UNION {buildingLoop(meters, 1, emptyBatch, req, now, markup) :
                meters \in RowOrders(metersIn(stallsWhere("building_id", req.buildingId)))}

computeBillingForBuilding(req, now) == buildingBatch(req, now, FALSE)

computeBillingForBuildingWithMarkup(req, now) == buildingBatch(req, now, TRUE)

(***************************************************************************)
(* Rate of change of one meter (rocUtils.js)                               *)
(***************************************************************************)
\* the returned structure, from the two consumptions (an Error of computeUnits
\* propagates)
rocResult(meter, stall, current, previous, anchor, currMax, prevMax, anchorMax, a2p, p2c) ==
  IF ~a2p.ok THEN a2p
  ELSE IF ~p2c.ok THEN p2c
  ELSE
    Ok([meter_id |-> meter.meter_id, stall_id |-> stall.stall_id,
        tenant_id |-> stall.tenant_id, building_id |-> stall.building_id,
        meter_type |-> toLowerCase(meter.meter_type),
        period |-> [current  |-> [start |-> current.start, end |-> current.end],
                    previous |-> previous, anchor |-> anchor],
        indices |-> [anchor_index   |-> rocRound(anchorMax.value, 2),
                     previous_index |-> rocRound(prevMax.value, 2),
                     current_index  |-> rocRound(currMax.value, 2)],
        prev_index |-> rocRound(prevMax.value, 2),
        curr_index |-> rocRound(currMax.value, 2),
        consumptions |-> [anchor_to_previous |-> a2p.value,
                          previous_to_current |-> p2c.value],
        current_consumption |-> p2c.value,
        previous_consumption |-> a2p.value,
        rate_of_change |->
          IF Gt(a2p.value, Zero)
          THEN <<MathCeil(Mul(Div(Sub(p2c.value, a2p.value), a2p.value), Hundred)), 1>>
          ELSE Null])

\* the Error 'Insufficient readings: need maxima in [a..b], [c..d], and
\* [e..f].': windows are the three windows its message names, in that order
insufficientReadings(anchor, previous, current) ==
  [ok |-> FALSE, status |-> 400, message |-> "Insufficient readings",
   windows |-> <<[start |-> anchor.start, end |-> anchor.end],
                 [start |-> previous.start, end |-> previous.end],
                 [start |-> current.start, end |-> current.end]>>]

\* the part of computeROCForMeter after the building lookup; current is the
\* outcome of ensureValidRange
rocFrom(meter, stall, building, current, endDate, currMax, prevMax, anchorMax) ==
  IF ~current.ok THEN current
  ELSE IF ~currMax.found \/ ~prevMax.found \/ ~anchorMax.found
  THEN insufficientReadings(monthSpanFor(endDate, 2), monthSpanFor(endDate, 1), current.value)
  ELSE rocResult(meter, stall, current.value, monthSpanFor(endDate, 1),
                 monthSpanFor(endDate, 2), currMax, prevMax, anchorMax,
                 computeUnits(meter.meter_type, meter.meter_mult, building,
                              anchorMax.value, prevMax.value),
                 computeUnits(meter.meter_type, meter.meter_mult, building,
                              prevMax.value, currMax.value))

\* req = [meterId, startDate, endDate]; currMax, prevMax and anchorMax are the
\* rows the three reading queries return
computeROCForMeter(req, currMax, prevMax, anchorMax) ==
  LET meter == findOne(meterTbl, req.meterId)
  IN  IF meter = NoRow THEN Err(404, "Meter not found")
      ELSE
        LET stall == findOne(stallTbl, meter.stall_id)
        IN  IF stall = NoRow THEN Err(404, "Stall not found for this meter")
            ELSE
              LET building == findOne(buildingTbl, stall.building_id)
              IN  IF building = NoRow THEN Err(400, "Building configuration not found")
                  ELSE rocFrom(meter, stall, building,
                               ensureValidRange(req.startDate, req.endDate),
                               req.endDate, currMax, prevMax, anchorMax)

\* the answers the reading query of the window w can get; no query is made
\* when the range is rejected
rocRowsIn(meterId, current, w) ==
  IF ~current.ok THEN {NoRow}
  ELSE rocGetMaxReadingInPeriod(meterId, w.start, w.end)

\* monthsBack 0 is the current window (the range of the call), 1 the previous
\* and 2 the anchor window
rocWindowRows(req, monthsBack) ==
  IF ~ensureValidRange(req.startDate, req.endDate).ok THEN {NoRow}
  ELSE rocRowsIn(req.meterId, ensureValidRange(req.startDate, req.endDate),
                 IF monthsBack = 0
                 THEN ensureValidRange(req.startDate, req.endDate).value
                 ELSE monthSpanFor(req.endDate, monthsBack))

(***************************************************************************)
(* Rate of change at tenant and building scope (rate-of-change router)     *)
(***************************************************************************)
\* the outcomes of the per-meter call of a route: the analyzer output, or
\* the item { meter_id, error } the catch pushes
rocItems(meterId, startDate, endDate) ==
  {IF r.ok THEN r.value ELSE [meter_id |-> meterId, error |-> r.message] :
     r \in {computeROCForMeter([meterId |-> meterId, startDate |-> startDate,
                                 endDate |-> endDate], currMax, prevMax, anchorMax) :
              currMax \in rocWindowRows([meterId |-> meterId, startDate |-> startDate,
                                         endDate |-> endDate], 0),
              prevMax \in rocWindowRows([meterId |-> meterId, startDate |-> startDate,
                                         endDate |-> endDate], 1),
              anchorMax \in rocWindowRows([meterId |-> meterId, startDate |-> startDate,
                                           endDate |-> endDate], 2)}}

\* the perMeter lists the try/catch loop can build from its i-th meter on
RECURSIVE rocLoop(_, _, _, _, _)
rocLoop(meters, i, perMeter, startDate, endDate) ==
  IF i > Len(meters) THEN {perMeter}
  ELSE UNION {rocLoop(meters, i + 1, Append(perMeter, r), startDate, endDate) :
                r \in rocItems(meters[i], startDate, endDate)}

\* String(r.meter_type || '').toLowerCase(): '' for an error item
itemType(r) == IF "meter_type" \in DOMAIN r THEN toLowerCase(r.meter_type) ELSE ""

\* Number(r?.consumptions?.[f]) || 0
itemConsumption(r, f) ==
  IF "consumptions" \in DOMAIN r THEN NumOr(r.consumptions[f], Zero) ELSE Zero

\* Number(r[f]) || 0 for the legacy fields current_consumption, previous_consumption
itemField(r, f) == IF f \in DOMAIN r THEN NumOr(r[f], Zero) ELSE Zero

\* the += of field f over the first i items of the list
RECURSIVE sumConsumption(_, _, _)
sumConsumption(items, i, f) ==
  IF i = 0 THEN Zero
  ELSE Add(sumConsumption(items, i - 1, f), itemConsumption(items[i], f))

RECURSIVE sumField(_, _, _)
sumField(items, i, f) ==
  IF i = 0 THEN Zero ELSE Add(sumField(items, i - 1, f), itemField(items[i], f))

\* base > 0 ? Math.ceil(((now - base) / base) * 100) : null
ceilPercent(base, now) ==
  IF Gt(base, Zero) THEN <<MathCeil(Mul(Div(Sub(now, base), base), Hundred)), 1>>
  ELSE Null

\* the items of the list with type t, in the order of the list
RECURSIVE itemsOfType(_, _, _)
itemsOfType(items, i, t) ==
  IF i = 0 THEN << >>
  ELSE IF itemType(items[i]) = t THEN Append(itemsOfType(items, i - 1, t), items[i])
  ELSE itemsOfType(items, i - 1, t)

\* the finalized totals of a group from its two sums
groupTotals(a2p, p2c) ==
  [anchor_to_previous |-> round(a2p, 2), previous_to_current |-> round(p2c, 2),
   current_consumption |-> round(p2c, 2), previous_consumption |-> round(a2p, 2),
   rate_of_change |-> ceilPercent(round(a2p, 2), round(p2c, 2))]

\* the group of type t over its items
rocGroup(meters, t) ==
  [meter_type |-> t, meters |-> meters,
   totals |-> groupTotals(sumConsumption(meters, Len(meters), "anchor_to_previous"),
                          sumConsumption(meters, Len(meters), "previous_to_current"))]

\* the order of the returned groups: electric, water, lpg, then the others
\* (only '', the type of the error items, since every analyzer output has one
\* of the three types)
GroupOrder == <<"electric", "water", "lpg", "">>

RECURSIVE groupsFrom(_, _)
groupsFrom(perMeter, k) ==
  IF k > Len(GroupOrder) THEN << >>
  ELSE IF itemsOfType(perMeter, Len(perMeter), GroupOrder[k]) = << >>
  THEN groupsFrom(perMeter, k + 1)
  ELSE <<rocGroup(itemsOfType(perMeter, Len(perMeter), GroupOrder[k]), GroupOrder[k])>>
         \o groupsFrom(perMeter, k + 1)

groupMetersByType(perMeterResults) == groupsFrom(perMeterResults, 1)

\* { current, previous, anchor } or the Error of ensureValidRange
getTenantPeriods(startDate, endDate) ==
  IF ~ensureValidRange(startDate, endDate).ok THEN ensureValidRange(startDate, endDate)
  ELSE Ok([current  |-> [start |-> startDate, end |-> endDate],
           previous |-> monthSpanFor(endDate, 1),
           anchor   |-> monthSpanFor(endDate, 2)])

\* { curr, prev } or the Error of ensureValidRange
getDisplayForRange(startDate, endDate) ==
  IF ~ensureValidRange(startDate, endDate).ok THEN ensureValidRange(startDate, endDate)
  ELSE Ok([current  |-> [start |-> startDate, end |-> endDate],
           previous |-> previousWindowSameLength(startDate, endDate).value])

\* req.buildingWhere('building_id'): no condition for an admin, building_id
\* IN ids for the others
inScope(scope, building_id) ==
  ~scope.isArray \/ \E i \in 1..Len(scope.ids) : scope.ids[i] = building_id

\* GET /tenants/:tenant_id/period-start/:startDate/period-end/:endDate
\* req = [tenant_id, startDate, endDate, scope]: the possible responses
rocTenantRoute(req) ==
  IF ~isYMD(req.startDate) \/ ~isYMD(req.endDate)
  THEN {Err(400, "Invalid date(s). Use YYYY-MM-DD.")}
  ELSE IF {st \in stallsWhere("tenant_id", req.tenant_id) :
             inScope(req.scope, stallTbl[st].building_id)} = {}
  THEN {Err(404, "No accessible stalls found for this tenant")}
  ELSE IF metersIn({st \in stallsWhere("tenant_id", req.tenant_id) :
                      inScope(req.scope, stallTbl[st].building_id)}) = {}
  THEN {Err(404, "No meters found for this tenant (within your scope)")}
  ELSE
    {IF ~getTenantPeriods(req.startDate, req.endDate).ok
     THEN getTenantPeriods(req.startDate, req.endDate)
     ELSE Ok([tenant_id |-> req.tenant_id,
              period |-> getTenantPeriods(req.startDate, req.endDate).value,
              groups |-> groupMetersByType(perMeter)]) :
       perMeter \in UNION {rocLoop(meters, 1, << >>, req.startDate, req.endDate) :
                    meters \in RowOrders(metersIn(
                      {st \in stallsWhere("tenant_id", req.tenant_id) :
                         inScope(req.scope, stallTbl[st].building_id)}))}}

\* the entry of one tenant of the building: its per-meter list and the totals
\* over the whole list
tenantEntry(tenant_id, perMeter) ==
  [tenant_id |-> tenant_id, meters |-> perMeter,
   totals |->
     [current_consumption  |-> round(sumField(perMeter, Len(perMeter), "current_consumption"), 2),
      previous_consumption |-> round(sumField(perMeter, Len(perMeter), "previous_consumption"), 2),
      rate_of_change |-> ceilPercent(sumField(perMeter, Len(perMeter), "previous_consumption"),
                                     sumField(perMeter, Len(perMeter), "current_consumption"))]]

\* the tenantsOut lists the loop over the tenants of the building (keys, in
\* the order of the Map) can build from its i-th tenant on
RECURSIVE rocTenantsLoop(_, _, _, _, _, _)
rocTenantsLoop(keys, i, out, building_id, startDate, endDate) ==
  IF i > Len(keys) THEN {out}
  ELSE UNION {rocTenantsLoop(keys, i + 1, Append(out, tenantEntry(keys[i], perMeter)),
                             building_id, startDate, endDate) :
                perMeter \in UNION {rocLoop(meters, 1, << >>, startDate, endDate) :
                  meters \in RowOrders(metersIn(
                    {st \in stallsWhere("building_id", building_id) :
                       stallTbl[st].tenant_id = keys[i]}))}}

\* GET /buildings/:building_id/period-start/:startDate/period-end/:endDate
\* req = [building_id, startDate, endDate]: the possible responses
rocBuildingRoute(req) ==
  IF ~isYMD(req.startDate) \/ ~isYMD(req.endDate)
  THEN {Err(400, "Invalid date(s). Use YYYY-MM-DD.")}
  ELSE IF findOne(buildingTbl, req.building_id) = NoRow
  THEN {Err(404, "Building not found")}
  ELSE IF stallsWhere("building_id", req.building_id) = {}
  THEN {Err(404, "No stalls found for this building")}
  ELSE
    {IF ~getDisplayForRange(req.startDate, req.endDate).ok
     THEN getDisplayForRange(req.startDate, req.endDate)
     ELSE Ok([building_id |-> req.building_id,
              period |-> getDisplayForRange(req.startDate, req.endDate).value,
              tenants |-> tenantsOut]) :
       tenantsOut \in UNION {rocTenantsLoop(keys, 1, << >>, req.building_id,
                                           req.startDate, req.endDate) :
                     keys \in RowOrders({stallTbl[st].tenant_id :
                                st \in stallsWhere("building_id", req.building_id)})}}

(***************************************************************************)
(* The batch entry points and the rate of change over a metered catalog    *)
(***************************************************************************)
\* both stalls in BLDG-1 and let to TNT-1
SharedStalls == [BaseStalls EXCEPT !["STL-2"].building_id = "BLDG-1",
                                   !["STL-2"].tenant_id = "TNT-1"]

\* catalogs the routes produce: one meter per tenant and building; two meters
\* of one tenant in one building; a vacant stall beside a let one; a stall
\* whose tenant row was deleted; a tenant moved to BLDG-2 keeping a stall in
\* BLDG-1 (both meters electric)
BatchCatalogs ==
  { BaseCatalog,
    [BaseCatalog EXCEPT !.stalls = SharedStalls],
    [BaseCatalog EXCEPT !.stalls = [SharedStalls EXCEPT !["STL-2"].tenant_id = None]],
    [BaseCatalog EXCEPT !.stalls["STL-2"].building_id = "BLDG-1",
                        !.tenants = Without(BaseTenants, "TNT-2")],
    [BaseCatalog EXCEPT !.stalls["STL-2"].tenant_id = "TNT-1",
                        !.meters["MTR-2"].meter_type = "electric"] }

\* a reading of every meter in January, February and March 2024
SeedReadings ==
  { [meter_id |-> "MTR-1", date |-> 20240131, value |-> <<10, 1>>],
    [meter_id |-> "MTR-1", date |-> 20240229, value |-> <<25, 2>>],
    [meter_id |-> "MTR-1", date |-> 20240315, value |-> <<1567, 100>>],
    [meter_id |-> "MTR-2", date |-> 20240131, value |-> <<5, 1>>],
    [meter_id |-> "MTR-2", date |-> 20240229, value |-> <<5, 1>>],
    [meter_id |-> "MTR-2", date |-> 20240315, value |-> <<29, 4>>] }

MaxDeleted == 2

\* DELETE /readings/:id
DeleteReading ==
  /\ last = Idle
  /\ Cardinality(readingTbl) + MaxDeleted > Cardinality(SeedReadings)
  /\ \E r \in readingTbl : readingTbl' = readingTbl \ {r}
  /\ UNCHANGED <<catalog, stored, last>>

BatchEndDates == {20240315, Malformed}

TenantRequests ==
  [tenantId : {"TNT-1", "TNT-2"}, endDate : BatchEndDates,
   penaltyRatePct : PenaltyPcts, restrictToBuildingIds : Restrictions]

BuildingRequests ==
  [buildingId : {"BLDG-1", "BLDG-2"}, endDate : BatchEndDates,
   penaltyRatePct : PenaltyPcts, restrictToBuildingIds : Restrictions]

ComputeBillingForTenant ==
  /\ last = Idle
  /\ \E req \in TenantRequests, now \in Instants :
       \E e \in computeBillingForTenant(req, now) :
         last' = [op |-> "computeBillingForTenant", req |-> req,
                  result |-> e.result, computed |-> e.computed]
  /\ UNCHANGED <<catalog, stored, readingTbl>>

ComputeBillingForTenantWithMarkup ==
  /\ last = Idle
  /\ \E req \in TenantRequests, now \in Instants :
       \E e \in computeBillingForTenantWithMarkup(req, now) :
         last' = [op |-> "computeBillingForTenantWithMarkup", req |-> req,
                  result |-> e.result, computed |-> e.computed]
  /\ UNCHANGED <<catalog, stored, readingTbl>>

ComputeBillingForBuilding ==
  /\ last = Idle
  /\ \E req \in BuildingRequests, now \in Instants :
       \E e \in computeBillingForBuilding(req, now) :
         last' = [op |-> "computeBillingForBuilding", req |-> req,
                  result |-> e.result, computed |-> e.computed]
  /\ UNCHANGED <<catalog, stored, readingTbl>>

ComputeBillingForBuildingWithMarkup ==
  /\ last = Idle
  /\ \E req \in BuildingRequests, now \in Instants :
       \E e \in computeBillingForBuildingWithMarkup(req, now) :
         last' = [op |-> "computeBillingForBuildingWithMarkup", req |-> req,
                  result |-> e.result, computed |-> e.computed]
  /\ UNCHANGED <<catalog, stored, readingTbl>>

\* ranges with end after, on and before start, starting on the first of the
\* end date's month, later in it and in the month before; MTR-9 is no meter
RocDates == {Malformed, 20240220, 20240301, 20240315, 20240316}

RocRequests == [meterId : MeterIds \cup {"MTR-9"}, startDate : RocDates, endDate : RocDates]

ComputeROCForMeter ==
  /\ last = Idle
  /\ \E req \in RocRequests :
       \E currMax \in rocWindowRows(req, 0), prevMax \in rocWindowRows(req, 1),
          anchorMax \in rocWindowRows(req, 2) :
         last' = [op |-> "computeROCForMeter", req |-> req,
                  result |-> computeROCForMeter(req, currMax, prevMax, anchorMax)]
  /\ UNCHANGED <<catalog, stored, readingTbl>>

\* the ranges of the grouped routes: from the first of the month, from the
\* month before, end before start, a malformed start
RouteRanges == {<<20240301, 20240315>>, <<20240220, 20240315>>,
                <<20240316, 20240315>>, <<Malformed, 20240315>>}

\* the scope attachBuildingScope gives an admin and a user of BLDG-1
RouteScopes == {Unrestricted, [isArray |-> TRUE, ids |-> <<"BLDG-1">>]}

RocTenantRoute ==
  /\ last = Idle
  /\ \E t \in {"TNT-1", "TNT-2"}, w \in RouteRanges, scope \in RouteScopes :
       \E r \in rocTenantRoute([tenant_id |-> t, startDate |-> w[1],
                                endDate |-> w[2], scope |-> scope]) :
         last' = [op |-> "rocTenantRoute",
                  req |-> [tenant_id |-> t, startDate |-> w[1], endDate |-> w[2],
                           scope |-> scope],
                  result |-> r]
  /\ UNCHANGED <<catalog, stored, readingTbl>>

RocBuildingRoute ==
  /\ last = Idle
  /\ \E b \in {"BLDG-1", "BLDG-2", "BLDG-9"}, w \in RouteRanges :
       \E r \in rocBuildingRoute([building_id |-> b, startDate |-> w[1],
                                  endDate |-> w[2]]) :
         last' = [op |-> "rocBuildingRoute",
                  req |-> [building_id |-> b, startDate |-> w[1], endDate |-> w[2]],
                  result |-> r]
  /\ UNCHANGED <<catalog, stored, readingTbl>>

\* res.status(err.status || 500)
statusOf(e) == IF e.status = 0 THEN 500 ELSE e.status

\* the outcomes of computeROCForMeter for a request, one per answer of its
\* three reading queries
rocOutcomes(req) ==
  {computeROCForMeter(req, currMax, prevMax, anchorMax) :
     currMax \in rocWindowRows(req, 0), prevMax \in rocWindowRows(req, 1),
     anchorMax \in rocWindowRows(req, 2)}

\* the response body of the meter billing route: the engine's result with
\* the rate of change, the breakdown and the period replaced by the route's
meterBillingBody(req, b, roc) ==
  [meter |-> b.meter, stall |-> b.stall, tenant |-> b.tenant,
   indices |-> b.indices, billing |-> b.billing, totals |-> b.totals,
   rate_of_change_percent |-> roc.rate_of_change,
   consumption_breakdown |->
     [previous_month_units |-> roc.previous_consumption,
      current_month_units  |-> roc.current_consumption,
      rate_of_change_percent |-> roc.rate_of_change],
   period |-> [start |-> req.startDate, end |-> req.endDate]]

\* GET /meters/:meter_id/period-start/:startDate/period-end/:endDate for an
\* admin: the date check, computeBillingForMeter, computeROCForMeter on the
\* caller's range, and the catch block for an Error of either
meterBillingRoute(req, now) ==
  IF ~isYMD(req.startDate) \/ ~isYMD(req.endDate)
  THEN {Err(400, "Invalid date(s). Use YYYY-MM-DD.")}
  ELSE UNION {IF ~b.ok THEN {Err(statusOf(b), b.message)}
              ELSE {IF ~roc.ok THEN Err(statusOf(roc), roc.message)
                    ELSE Ok(meterBillingBody(req, b.value, roc.value)) :
                    roc \in rocOutcomes([meterId |-> req.meter_id,
                                         startDate |-> req.startDate,
                                         endDate |-> req.endDate])} :
              b \in meterResults([meterId |-> req.meter_id, endDate |-> req.endDate,
                                  penaltyRatePct |-> NumOr(req.penalty_rate, Zero),
                                  restrictToBuildingIds |-> Unrestricted], now, FALSE)}

\* start dates before, on and after the first of the end date's month, the
\* end date itself, and a malformed one
MeterRouteStarts == {20240220, 20240301, 20240316, Malformed}
MeterRouteEnds == {20240315, 20240316}

MeterRouteRequests ==
  [meter_id : MeterIds, startDate : MeterRouteStarts, endDate : MeterRouteEnds,
   penalty_rate : {Null}]

MeterBillingRoute ==
  /\ last = Idle
  /\ \E req \in MeterRouteRequests, now \in Instants :
       \E r \in meterBillingRoute(req, now) :
         last' = [op |-> "meterBillingRoute", req |-> req, result |-> r]
  /\ UNCHANGED <<catalog, stored, readingTbl>>

InitBatch ==
  /\ \E c \in BatchCatalogs :
       /\ meterTbl = c.meters /\ stallTbl = c.stalls /\ tenantTbl = c.tenants
       /\ buildingTbl = c.buildings /\ vatTbl = c.vat /\ wtTbl = c.wt
  /\ readingTbl = SeedReadings
  /\ last = Idle
  /\ billingTbl = {} /\ posts = NoPosts

NextBatch ==
  \/ DeleteReading
  \/ ComputeBillingForMeter
  \/ ComputeBillingForMeterWithMarkup
  \/ ComputeBillingForTenant
  \/ ComputeBillingForTenantWithMarkup
  \/ ComputeBillingForBuilding
  \/ ComputeBillingForBuildingWithMarkup
  \/ CalcEnsureValidRange
  \/ CalcPreviousWindowSameLength
  \/ ComputeROCForMeter
  \/ RocTenantRoute
  \/ RocBuildingRoute
  \/ MeterBillingRoute
  \/ Return

SpecBatch == InitBatch /\ [][NextBatch]_vars

(***************************************************************************)
(* Storing a building billing header (routes/billings.js)                  *)
(***************************************************************************)
\* the sum of totals[f] over the entries of the computed list
RECURSIVE sumRows(_, _, _)
sumRows(meters, i, f) ==
  IF i = 0 THEN Zero ELSE Add(sumRows(meters, i - 1, f), meters[i].totals[f])

\* `${building_id}-${startDate}-${endDate}`, the primary key of billing_list
billingId(req) == <<req.building_id, req.startDate, req.endDate>>

\* the row Billing.create is called with
headerOf(req, meters) ==
  [building_billing_id |-> billingId(req),
   building_id |-> req.building_id,
   period_start |-> req.startDate, period_end |-> req.endDate,
   total_consumed_kwh |-> round(sumRows(meters, Len(meters), "consumption"), 2),
   total_amount |-> round(sumRows(meters, Len(meters), "total"), 2),
   penalty_rate_pct |-> NumOr(req.penalty_rate, Zero)]

\* Billing.findOne({ where: { building_id, period_start, period_end } })
findHeader(req) ==
  {h \in billingTbl : /\ h.building_id = req.building_id
                      /\ h.period_start = req.startDate
                      /\ h.period_end = req.endDate}

\* Billing.create: the primary key and the unique index on (building_id,
\* period_start, period_end) reject a second row for the key
createHeader(h) ==
  IF \E g \in billingTbl : \/ g.building_billing_id = h.building_billing_id
                            \/ /\ g.building_id = h.building_id
                               /\ g.period_start = h.period_start
                               /\ g.period_end = h.period_end
  THEN Err(0, "Validation error")
  ELSE Ok(billingTbl \cup {h})

\* the handler up to the payload: the date check and the building batch
\* (standard or with markup); the result is the header to save or the Error
postCompute(req, now) ==
  IF ~isYMD(req.startDate) \/ ~isYMD(req.endDate)
  THEN {Err(400, "Invalid date(s). Use YYYY-MM-DD.")}
  ELSE {IF e.result.ok THEN Ok(headerOf(req, e.result.value.meters)) ELSE e.result :
          e \in buildingBatch([buildingId |-> req.building_id, endDate |-> req.endDate,
                               penaltyRatePct |-> NumOr(req.penalty_rate, Zero),
                               restrictToBuildingIds |-> Unrestricted],
                              now, req.markup)}

\* a response: its status, its error message, whether the request got as far
\* as the uniqueness check, and whether it created the header
Done(req, status, message, checked, created) ==
  [pc |-> "done", req |-> req, status |-> status, message |-> message,
   checked |-> checked, created |-> created]

\* periods with readings, with a malformed start, and without readings
PostRanges == {<<20240301, 20240315>>, <<Malformed, 20240315>>, <<20240401, 20240415>>}

PostRequests ==
  {[building_id |-> b, startDate |-> w[1], endDate |-> w[2],
    penalty_rate |-> Null, markup |-> k] :
     b \in {"BLDG-1"}, w \in PostRanges, k \in BOOLEAN}

\* POST .../buildings/:building_id/period-start/:startDate/period-end/:endDate
\* (markup FALSE) and its /with-markup twin, up to the await of findOne
PostBilling(p) ==
  /\ posts[p] = NoPost
  /\ \E req \in PostRequests, now \in Instants :
       \E r \in postCompute(req, now) :
         posts' = [posts EXCEPT ![p] =
                     IF r.ok THEN [pc |-> "findOne", req |-> req, header |-> r.value]
                     ELSE Done(req, statusOf(r), r.message, FALSE, FALSE)]
  /\ UNCHANGED <<catalog, readingTbl, last, billingTbl>>

\* the uniqueness check: 409 when a header exists, else on to the insert
PostFindOne(p) ==
  /\ posts[p].pc = "findOne"
  /\ posts' = [posts EXCEPT ![p] =
                 IF findHeader(posts[p].req) # {}
                 THEN Done(posts[p].req, 409,
                           "Billing already exists for this building and period.",
                           TRUE, FALSE)
                 ELSE [posts[p] EXCEPT !.pc = "create"]]
  /\ UNCHANGED <<catalog, readingTbl, last, billingTbl>>

\* Billing.create and the 201 response, or the catch block when it throws
PostCreate(p) ==
  /\ posts[p].pc = "create"
  /\ LET c == createHeader(posts[p].header)
     IN  /\ billingTbl' = IF c.ok THEN c.value ELSE billingTbl
         /\ posts' = [posts EXCEPT ![p] =
                        IF c.ok THEN Done(posts[p].req, 201, "", TRUE, TRUE)
                        ELSE Done(posts[p].req, statusOf(c), c.message, TRUE, FALSE)]
  /\ UNCHANGED <<catalog, readingTbl, last>>

\* the response is sent; the connection is free for another request
PostRespond(p) ==
  /\ posts[p].pc = "done"
  /\ posts' = [posts EXCEPT ![p] = NoPost]
  /\ UNCHANGED <<catalog, readingTbl, last, billingTbl>>

InitPost == InitBatch

NextPost ==
  \/ \E p \in Posters : PostBilling(p)
  \/ \E p \in Posters : PostFindOne(p)
  \/ \E p \in Posters : PostCreate(p)
  \/ \E p \in Posters : PostRespond(p)

SpecPost == InitPost /\ [][NextPost]_vars

(***************************************************************************)
(* Properties of the calculators (checked under SpecCalc)                  *)
(***************************************************************************)
SupportedTypes == {"electric", "water", "lpg"}

UnitsOps   == {"computeUnitsOnly", "computeUnits"}
ChargesOps == {"computeChargesByType", "computeChargesByTypeWithMarkup"}
IsUnitsCall   == last.op \in UnitsOps /\ toLowerCase(last.type) \in SupportedTypes
IsChargesCall == last.op \in ChargesOps /\ toLowerCase(last.type) \in SupportedTypes

\* the minimum floor of a type: the building's emin_con / wmin_con, the path's
\* LPG constant (1 in the billing path, 0 in the rate-of-change path)
FloorOf(op, t, b) ==
  CASE toLowerCase(t) = "electric" -> b.emin_con
    [] toLowerCase(t) = "water"    -> b.wmin_con
    [] toLowerCase(t) = "lpg"      -> IF op = "computeUnits" THEN <<0, 1>> ELSE <<1, 1>>

\* x rounded to 2 decimals, halves up
Round2(x) == LET c == Mul(x, <<100, 1>>)
                 i == c[1] \div c[2]
             IN  Q(IF 2 * (c[1] - i * c[2]) >= c[2] THEN i + 1 ELSE i, 100)

\* C1 as stated: the calculators return raw = (current - previous) * multiplier
\* when raw > 0 and the type's minimum floor otherwise.
C1_AsStated ==
  IsUnitsCall =>
    LET raw == Mul(Sub(last.currIdx, last.prevIdx), last.mult)
    IN  last.result = Ok(IF Gt(raw, Zero) THEN raw
                         ELSE FloorOf(last.op, last.type, last.building))

\* C1 amended: with m the multiplier, or 1 when the multiplier is 0, and
\* raw = (current - previous) * m, the calculators return raw rounded to 2
\* decimals when raw > 0 and the type's minimum floor otherwise.
C1_UnitsOrFloor ==
  IsUnitsCall =>
    LET m   == IF last.mult = Zero THEN One ELSE last.mult
        raw == Mul(Sub(last.currIdx, last.prevIdx), m)
    IN  last.result = Ok(IF Gt(raw, Zero) THEN Round2(raw)
                         ELSE FloorOf(last.op, last.type, last.building))

\* a zero multiplier counted as 1, and a raw delta with more than 2 decimals
C1_Witness ==
  /\ last.op = "computeUnitsOnly" /\ toLowerCase(last.type) = "water"
  /\ last.mult = Zero /\ last.prevIdx = Zero /\ last.currIdx = <<3, 100>>
  /\ last.result = Ok(<<3, 100>>)

\* C2 as stated (floor invariant): the consumption computed by the billing
\* engine is never below the type's minimum floor.
C2_FloorInvariant ==
  (last.op = "computeUnitsOnly" /\ last.result.ok) =>
    Ge(last.result.value, getMinConsumption(last.type, last.building).value)

\* C3: applyTaxes returns vat = base * vatFraction and wt = vat * wtFraction
\* (each to 2 decimals): withholding is taken from the VAT amount, not the base.
C3_WtFromVat ==
  /\ last.op = "applyTaxes" =>
       LET vat == Mul(last.base, last.vatRate)
       IN  /\ last.result.vat = Round2(vat)
           /\ last.result.wt  = Round2(Mul(vat, last.wtRate))
  /\ (IsChargesCall /\ last.result.ok) =>
       LET r    == last.result.value
           t    == toLowerCase(last.type)
           vatR == IF t = "electric" THEN last.taxKnobs.vat.e
                   ELSE IF t = "water" THEN last.taxKnobs.vat.w ELSE last.taxKnobs.vat.l
           wtR  == IF t = "electric" THEN last.taxKnobs.wt.e
                   ELSE IF t = "water" THEN last.taxKnobs.wt.w ELSE last.taxKnobs.wt.l
           vat  == Mul(Mul(r.consumption, r.rates.system_rate), vatR)
       IN  /\ r.vat = Round2(vat)
           /\ r.wt  = Round2(Mul(vat, wtR))

\* scenario 3 of the specification: base 1000, VAT 12%, WT 2% gives wt 2.40
\* (2% of the VAT 120.00), not 20.00 (2% of the base)
C3_Witness ==
  /\ last.op = "applyTaxes" /\ last.base = <<1000, 1>>
  /\ last.vatRate = <<3, 25>> /\ last.wtRate = <<1, 50>>
  /\ last.result.vat = <<120, 1>> /\ last.result.wt = <<12, 5>>

\* C4 as stated (cascade invariant): the returned total is the 2-decimal
\* rounding of base + vat + penalty - wt taken on the returned (rounded) fields.
C4_TotalOfRoundedFields ==
  (IsChargesCall /\ last.result.ok) =>
    LET r == last.result.value
    IN  r.total = Round2(Sub(Add(Add(r.base, r.vat), r.penalty), r.wt))

\* C6: with a withholding fraction in [0,1] (base and VAT fraction
\* non-negative), the returned amounts satisfy 0 <= wt <= vat.
C6_WtWithinVat ==
  /\ (last.op = "applyTaxes" /\ Ge(last.base, Zero) /\ Ge(last.vatRate, Zero)
        /\ Ge(last.wtRate, Zero) /\ Le(last.wtRate, One)) =>
       /\ Le(Zero, last.result.wt)
       /\ Le(last.result.wt, last.result.vat)
  /\ (IsChargesCall /\ last.result.ok
        /\ \A k \in {"e", "w", "l"} :
              Ge(last.taxKnobs.wt[k], Zero) /\ Le(last.taxKnobs.wt[k], One)) =>
       /\ Le(Zero, last.result.value.wt)
       /\ Le(last.result.value.wt, last.result.value.vat)

\* a withholding fraction of exactly 1 on a VAT that rounds down: wt = vat
C6_Witness ==
  /\ last.op = "applyTaxes" /\ last.wtRate = One
  /\ Gt(last.result.vat, Zero) /\ last.result.wt = last.result.vat
  /\ Lt(last.result.vat, Mul(last.base, last.vatRate))

\* C8: standard mode reports system_rate = utility_rate (markup_rate 0) and
\* base = consumption * utility_rate; markup mode reports
\* system_rate = utility_rate + markup_rate and base = consumption * system_rate;
\* in both the triple satisfies system_rate = utility_rate + markup_rate.
RateOf(t, b) ==
  CASE toLowerCase(t) = "electric" -> b.erate_perKwH
    [] toLowerCase(t) = "water"    -> b.wrate_perCbM
    [] toLowerCase(t) = "lpg"      -> b.lrate_perKg

C8_RateComposition ==
  (IsChargesCall /\ last.result.ok) =>
    LET r      == last.result.value
        rates  == r.rates
        markup == IF last.op = "computeChargesByType" THEN Zero
                  ELSE last.building.markup_rate
    IN  /\ rates.utility_rate = RateOf(last.type, last.building)
        /\ rates.markup_rate  = markup
        /\ rates.system_rate  = Add(rates.utility_rate, rates.markup_rate)
        /\ last.op = "computeChargesByType" => rates.system_rate = rates.utility_rate
        /\ r.base = Round2(Mul(r.consumption, Add(RateOf(last.type, last.building), markup)))

\* scenario 1 of the specification with the markup of BLDG-1: 50 kWh at
\* 10.00 + 1.50 gives base 575.00
C8_Witness ==
  /\ last.op = "computeChargesByTypeWithMarkup" /\ last.type = "electric"
  /\ last.building = BLDG1 /\ last.result.ok
  /\ last.result.value.consumption = <<50, 1>>
  /\ last.result.value.rates.system_rate = <<23, 2>>
  /\ last.result.value.base = <<575, 1>>

(***************************************************************************)
(* Properties of the per-meter entry points and the locator (under Spec)   *)
(***************************************************************************)
BillingOps == {"computeBillingForMeter", "computeBillingForMeterWithMarkup"}
IsBilled   == last.op \in BillingOps /\ last.result.ok

\* a percentage as a fraction: points (>= 1) divided by 100, fractions as they are
AsFraction(v) == IF Ge(v, One) THEN Div(v, Hundred) ELSE v

\* the stored percentage of a tax code (0 without a code or without its row)
StoredPct(tbl, code, field) ==
  IF code = None \/ code \notin DOMAIN tbl THEN Zero ELSE tbl[code][field]

\* the monetary base before rounding: consumption * system rate
ExactBase(b) == Mul(b.consumption, b.rates.system_rate)

\* C5: the penalty of a billing result is base * penaltyFraction (2 decimals)
\* when the tenant's for_penalty flag is set and exactly 0 when it is not; the
\* fraction is the request's penaltyRatePct, never the building's penalty_rate.
C5_PenaltyFromRequest ==
  IsBilled =>
    LET r      == last.result.value
        tenant == tenantTbl[r.tenant.tenant_id]
    IN  r.billing.penalty =
          IF tenant.for_penalty
          THEN Round2(Mul(ExactBase(r.billing), AsFraction(last.req.penaltyRatePct)))
          ELSE Zero

\* MTR-1 (tenant with for_penalty) billed 2.5 kWh at 10.00 with ?penalty_rate=2:
\* penalty 0.50, although BLDG-1 stores penalty_rate 0.2
C5_Witness ==
  /\ IsBilled /\ last.op = "computeBillingForMeter"
  /\ last.req.penaltyRatePct = <<2, 1>>
  /\ last.result.value.tenant.for_penalty
  /\ last.result.value.billing.base = <<25, 1>>
  /\ last.result.value.billing.penalty = <<1, 2>>

\* C7: normalizePct divides every value >= 1 by 100 and leaves every value < 1
\* unchanged (12 -> 0.12, 0.12 -> 0.12, 1 -> 0.01), and the VAT rate, the
\* withholding rate and the request penalty percentage all enter the tax
\* cascade normalised.
C7_PercentNormalised ==
  /\ (last.op = "normalizePct" /\ last.v # Null) =>
       last.result = (IF Ge(last.v, One) THEN Div(last.v, Hundred) ELSE last.v)
  /\ IsBilled =>
       LET r      == last.result.value
           b      == r.billing
           tenant == tenantTbl[r.tenant.tenant_id]
           k      == IF r.meter.meter_type = "electric" THEN "e"
                     ELSE IF r.meter.meter_type = "water" THEN "w" ELSE "l"
           vatR   == AsFraction(StoredPct(vatTbl, tenant.vat_code,
                       IF k = "e" THEN "e_vat" ELSE IF k = "w" THEN "w_vat" ELSE "l_vat"))
           wtR    == AsFraction(StoredPct(wtTbl, tenant.wt_code,
                       IF k = "e" THEN "e_wt" ELSE IF k = "w" THEN "w_wt" ELSE "l_wt"))
           penR   == AsFraction(last.req.penaltyRatePct)
       IN  /\ b.vat = Round2(Mul(ExactBase(b), vatR))
           /\ b.wt  = Round2(Mul(Mul(ExactBase(b), vatR), wtR))
           /\ tenant.for_penalty => b.penalty = Round2(Mul(ExactBase(b), penR))

\* the boundary value: normalize(1) = 0.01
C7_Witness ==
  /\ last.op = "normalizePct" /\ last.v = One /\ last.result = <<1, 100>>

\* the readings of a meter dated within [s, e], and the latest of them
InWindow(m, s, e) == {r \in readingTbl : r.meter_id = m /\ s <= r.date /\ r.date <= e}
Latest(rows)      == {r \in rows : \A q \in rows : q.date <= r.date}

\* C9: the locator (billing and rate-of-change path) returns a reading of the
\* meter with the maximum date among those dated within the inclusive window,
\* and nothing exactly when no reading lies inside; the indices of a billing
\* result are the values of such readings for the previous and current window.
C9_LatestInWindow ==
  /\ last.op \in {"getMaxReadingInPeriod", "rocGetMaxReadingInPeriod"} =>
       LET rows == InWindow(last.meter_id, last.start, last.end)
       IN  /\ last.result.found <=> rows # {}
           /\ last.result.found =>
                \E r \in Latest(rows) :
                  r.date = last.result.date /\ r.value = last.result.value
  /\ IsBilled =>
       LET p  == getPeriodStrings(last.req.endDate).value
           ix == last.result.value.indices
       IN  /\ \E r \in Latest(InWindow(last.req.meterId, p.curr.start, p.curr.end)) :
                ix.curr_index = r.value
           /\ \E r \in Latest(InWindow(last.req.meterId, p.prev.start, p.prev.end)) :
                ix.prev_index = r.value

\* two readings of one meter inside the window, one dated exactly its start
\* and one exactly its end, with different values: the one dated the end is found
C9_Witness ==
  /\ last.op = "getMaxReadingInPeriod"
  /\ last.start = 20240229 /\ last.end = 20240301
  /\ \E r1, r2 \in readingTbl :
       /\ r1.meter_id = last.meter_id /\ r1.date = 20240229
       /\ r2.meter_id = last.meter_id /\ r2.date = 20240301
       /\ r1.value # r2.value
       /\ last.result = [found |-> TRUE, value |-> r2.value, date |-> 20240301]

\* a billing call whose current or previous window holds no reading of the meter
EmptyWindow ==
  /\ last.op \in BillingOps
  /\ getPeriodStrings(last.req.endDate).ok
  /\ LET p == getPeriodStrings(last.req.endDate).value
     IN  \/ InWindow(last.req.meterId, p.curr.start, p.curr.end) = {}
         \/ InWindow(last.req.meterId, p.prev.start, p.prev.end) = {}

InsufficientData ==
  /\ ~last.result.ok /\ last.result.status = 400
  /\ last.result.message \in {"No readings for current window",
                              "No readings for previous window"}

\* the catalog lookups of the call succeed and the scope restriction, if any,
\* admits the building
Resolved ==
  /\ last.req.meterId \in DOMAIN meterTbl
  /\ LET meter == meterTbl[last.req.meterId]
     IN  /\ meter.stall_id \in DOMAIN stallTbl
         /\ LET stall == stallTbl[meter.stall_id]
                ids   == last.req.restrictToBuildingIds.ids
            IN  /\ stall.building_id \in DOMAIN buildingTbl
                /\ stall.tenant_id \in DOMAIN tenantTbl
                /\ \/ ~last.req.restrictToBuildingIds.isArray
                   \/ ids = << >>
                   \/ \E i \in 1..Len(ids) : ids[i] = stall.building_id

\* the meter of the call, its stall and the stall's building exist
Located ==
  /\ last.req.meterId \in DOMAIN meterTbl
  /\ meterTbl[last.req.meterId].stall_id \in DOMAIN stallTbl
  /\ stallTbl[meterTbl[last.req.meterId].stall_id].building_id \in DOMAIN buildingTbl

\* C10 as stated: whenever the current or the previous window contains no
\* reading of the (existing, located) meter, the entry points fail with
\* InsufficientData.
C10_AsStated == (EmptyWindow /\ Located) => InsufficientData

\* C10 amended: whenever the current or the previous window contains no
\* reading, the entry points return no billing result (no index is taken as
\* zero); the failure is InsufficientData when the meter, stall, building and
\* tenant are found and the scope restriction admits the building.
C10_NoReadingNoBill ==
  EmptyWindow => /\ ~last.result.ok
                 /\ Resolved => InsufficientData

\* a reading in the current window, none in the previous one
C10_Witness ==
  /\ EmptyWindow /\ Resolved
  /\ LET p == getPeriodStrings(last.req.endDate).value
     IN  InWindow(last.req.meterId, p.curr.start, p.curr.end) # {}
  /\ last.result = Err(400, "No readings for previous window")

(***************************************************************************)
(* Calendar windows (C16, C17)                                             *)
(***************************************************************************)
\* the Gregorian calendar, stated on yyyymm and yyyymmdd numbers
IsLeapYear(y) == (y % 4 = 0 /\ y % 100 # 0) \/ y % 400 = 0

DaysInMonth(ym) ==
  CASE ym % 100 \in {4, 6, 9, 11} -> 30
    [] ym % 100 = 2 -> IF IsLeapYear(ym \div 100) THEN 29 ELSE 28
    [] OTHER -> 31

MonthBefore(ym) == IF ym % 100 = 1 THEN (ym \div 100 - 1) * 100 + 12 ELSE ym - 1

WholeMonth(ym) == [start |-> ym * 100 + 1, end |-> ym * 100 + DaysInMonth(ym)]

DayBefore(s) ==
  IF s % 100 > 1 THEN s - 1 ELSE WholeMonth(MonthBefore(s \div 100)).end

RECURSIVE MonthsBack(_, _)
MonthsBack(ym, k) == IF k = 0 THEN ym ELSE MonthsBack(MonthBefore(ym), k - 1)

\* C16: for every valid end date getPeriodStrings returns as current window
\* the first day of the end date's month through the end date, as previous
\* window the whole calendar month before it and as pre-previous window the
\* whole calendar month before that, across year boundaries and in leap
\* years; monthSpanFor(d, k) is the whole calendar month k months before d's.
C16_CalendarWindows ==
  /\ (last.op = "getPeriodStrings" /\ last.endDate # Malformed) =>
        /\ last.result.ok
        /\ last.result.value.curr =
             [start |-> (last.endDate \div 100) * 100 + 1, end |-> last.endDate]
        /\ last.result.value.prev = WholeMonth(MonthBefore(last.endDate \div 100))
        /\ last.result.value.preprev =
             WholeMonth(MonthBefore(MonthBefore(last.endDate \div 100)))
  /\ last.op = "monthSpanFor" =>
        LET ym == MonthsBack(last.dateStr \div 100, last.monthsBack)
        IN  last.result = [start |-> WholeMonth(ym).start,
                           end   |-> WholeMonth(ym).end, month |-> ym]

\* an end date in January 2024: the previous window is December 2023 and the
\* pre-previous one November 2023
C16_Witness ==
  /\ last.op = "getPeriodStrings" /\ last.endDate = 20240131
  /\ last.result.ok
  /\ last.result.value.prev = [start |-> 20231201, end |-> 20231231]
  /\ last.result.value.preprev = [start |-> 20231101, end |-> 20231130]

\* C17: for every range with start <= end, previousWindowSameLength returns
\* the window that ends on the day immediately before the start and spans
\* the same inclusive number of days as the range.
C17_PreviousWindow ==
  ( /\ last.op = "previousWindowSameLength"
    /\ last.startDate # Malformed /\ last.endDate # Malformed
    /\ last.startDate <= last.endDate ) =>
      /\ last.result.ok
      /\ last.result.value.end = DayBefore(last.startDate)
      /\ last.result.value.start <= last.result.value.end
      /\ fromYMD(last.result.value.end) - fromYMD(last.result.value.start)
           = fromYMD(last.endDate) - fromYMD(last.startDate)

\* the 15 days 2024-03-01..2024-03-15 are preceded by 2024-02-15..2024-02-29
C17_Witness ==
  /\ last.op = "previousWindowSameLength"
  /\ last.startDate = 20240301 /\ last.endDate = 20240315
  /\ last.result = Ok([start |-> 20240215, end |-> 20240229])

(***************************************************************************)
(* Unsupported utility type (C19)                                          *)
(***************************************************************************)
\* the operation computed consumption or charges for a type that is none of
\* electric, water, lpg
UnsupportedTypeCall ==
  /\ last.op \in UnitsOps \cup ChargesOps
  /\ toLowerCase(last.type) \notin SupportedTypes

\* a Validation failure: an Error carrying status 400
ValidationFailure(r) == ~r.ok /\ r.status = 400

\* C19: a meter type other than electric, water or lpg always yields a
\* Validation failure from the consumption and charge computations of both
\* the billing path (computeUnitsOnly, computeChargesByType, with markup) and
\* the rate-of-change path (computeUnits); no default result is returned.
C19_UnsupportedIsValidation ==
  UnsupportedTypeCall =>
    /\ ValidationFailure(last.result)
    /\ last.result.message = "Unsupported meter type"

(***************************************************************************)
(* Malformed end date (C20)                                                *)
(***************************************************************************)
\* C20: computeBillingForMeter called with a malformed end date fails with
\* the Validation error whatever the catalog holds (meter, stall, building or
\* tenant present or not, scope restriction matching or not); no other
\* failure is reported in its place.
C20_MalformedDateIsValidation ==
  (last.op \in BillingOps /\ ~isYMD(last.req.endDate)) =>
    last.result = Err(400, "Invalid end_date format. Use YYYY-MM-DD.")

(***************************************************************************)
(* Scope restriction (C11)                                                 *)
(***************************************************************************)
TenantOps   == {"computeBillingForTenant", "computeBillingForTenantWithMarkup"}
BuildingOps == {"computeBillingForBuilding", "computeBillingForBuildingWithMarkup"}
BatchOps    == TenantOps \cup BuildingOps

Listed(ids, b) == \E i \in 1..Len(ids) : ids[i] = b

\* the call is made with an allow-list that does not hold the building it is
\* about: the building of the meter's stall, or the requested building
OutsideAllowList ==
  \/ /\ last.op \in BillingOps
     /\ last.req.restrictToBuildingIds.isArray
     /\ last.req.meterId \in DOMAIN meterTbl
     /\ meterTbl[last.req.meterId].stall_id \in DOMAIN stallTbl
     /\ ~Listed(last.req.restrictToBuildingIds.ids,
                stallTbl[meterTbl[last.req.meterId].stall_id].building_id)
  \/ /\ last.op \in BuildingOps
     /\ last.req.restrictToBuildingIds.isArray
     /\ ~Listed(last.req.restrictToBuildingIds.ids, last.req.buildingId)

Forbidden ==
  /\ ~last.result.ok /\ last.result.status = 403
  /\ last.result.message =
       IF last.op \in BuildingOps THEN "No access to this building"
       ELSE "No access to this record's building"

\* C11 as stated: whenever an allow-list is provided and does not hold the
\* building of the meter's stall (computeBillingForMeter) or the requested
\* building (computeBillingForBuilding), the call fails with Forbidden.
C11_AsStated == OutsideAllowList => Forbidden

\* C11 amended: whenever a non-empty allow-list is provided and does not hold
\* the building of the meter's stall or the requested building, the call
\* fails with Forbidden and returns no figures; with an empty allow-list, as
\* with none, no call fails with Forbidden.
C11_NonEmptyAllowList ==
  /\ (OutsideAllowList /\ last.req.restrictToBuildingIds.ids # << >>) => Forbidden
  /\ (last.op \in BillingOps \cup BatchOps /\ last.req.restrictToBuildingIds.ids = << >>)
       => (last.result.ok \/ last.result.status # 403)

\* meter MTR-2, in BLDG-2 with all its readings, asked for by a caller
\* restricted to BLDG-1
C11_Witness ==
  /\ last.op = "computeBillingForMeter" /\ last.req.meterId = "MTR-2"
  /\ last.req.endDate = 20240315
  /\ last.req.restrictToBuildingIds = [isArray |-> TRUE, ids |-> <<"BLDG-1">>]
  /\ stallTbl[meterTbl["MTR-2"].stall_id].building_id = "BLDG-2"
  /\ stallTbl[meterTbl["MTR-2"].stall_id].tenant_id \in DOMAIN tenantTbl
  /\ readingTbl = SeedReadings
  /\ Forbidden

(***************************************************************************)
(* Failure tolerance of the batch calls (C12, C13)                         *)
(***************************************************************************)
\* the meters a batch call iterates over
ScopeMeters ==
  IF last.op \in TenantOps
  THEN metersIn(stallsWhere("tenant_id", last.req.tenantId))
  ELSE metersIn(stallsWhere("building_id", last.req.buildingId))

\* the batch call passed what is decided before its loop: a well-formed end
\* date and, at building scope, the scope restriction
LoopEntered ==
  /\ last.op \in BatchOps
  /\ isYMD(last.req.endDate)
  /\ last.op \in BuildingOps =>
       ~scopeDenied(last.req.restrictToBuildingIds, last.req.buildingId)

\* C12: a batch call (tenant or building scope, standard or with markup)
\* continues past a per-meter failure: once its loop is entered it returns
\* a result (partial results, never an all-or-nothing failure) in which
\* every meter of the scope was computed.
C12_ContinuesPastFailure ==
  LoopEntered => /\ last.result.ok
                 /\ last.computed = Cardinality(ScopeMeters)

TenantFound(m) ==
  /\ meterTbl[m].stall_id \in DOMAIN stallTbl
  /\ stallTbl[meterTbl[m].stall_id].tenant_id \in DOMAIN tenantTbl

\* the meters of the items of a returned list
ItemMeters(items) == {items[i].meter.meter_id : i \in 1..Len(items)}

TotalFields == {"base", "vat", "wt", "penalty", "total"}

\* the sum of field f over the first i items that satisfy the type filter
\* (types is the set of utility types counted)
RECURSIVE SumOver(_, _, _, _)
SumOver(items, i, f, types) ==
  IF i = 0 THEN Zero
  ELSE IF items[i].meter.meter_type \in types
  THEN Add(SumOver(items, i - 1, f, types), items[i].billing[f])
  ELSE SumOver(items, i - 1, f, types)

\* C13: at building scope a meter whose computation fails with
\* tenant-not-found is skipped silently: that failure never ends the call,
\* the meter is no item of the returned list, the loop goes on over every
\* meter of the building, and the grand totals are those of the meters that
\* succeeded.
C13_TenantNotFoundSkipped ==
  (last.op \in BuildingOps /\ LoopEntered) =>
    /\ ~last.result.ok => last.result.message # "Tenant not found"
    /\ last.result.ok =>
         /\ last.computed = Cardinality(ScopeMeters)
         /\ ItemMeters(last.result.value.meters) = {m \in ScopeMeters : TenantFound(m)}
         /\ Len(last.result.value.meters) = Cardinality({m \in ScopeMeters : TenantFound(m)})
         /\ \A f \in TotalFields :
              last.result.value.grand_totals[f] =
                SumOver(last.result.value.meters, Len(last.result.value.meters), f, TotalTypes)

\* BLDG-1 with the let stall of MTR-1 and the vacant stall of MTR-2: the
\* result holds MTR-1 alone and its totals
C13_Witness ==
  /\ last.op = "computeBillingForBuilding" /\ last.req.buildingId = "BLDG-1"
  /\ ScopeMeters = {"MTR-1", "MTR-2"} /\ ~TenantFound("MTR-2")
  /\ last.result.ok /\ last.computed = 2
  /\ ItemMeters(last.result.value.meters) = {"MTR-1"}
  /\ last.result.value.grand_totals.total = last.result.value.meters[1].billing.total
  /\ Gt(last.result.value.grand_totals.total, Zero)

(***************************************************************************)
(* Rollup (C14)                                                            *)
(***************************************************************************)
\* C14: for tenant and building aggregation every field (base, vat, wt,
\* penalty, total) of grand_totals is the 2-decimal rounding of the sum of
\* that field over the items of the returned list, and every per-type bucket
\* the rounded sum over the items of that utility type.
C14_RollupExact ==
  (last.op \in BatchOps /\ last.result.ok) =>
    \A f \in TotalFields :
      /\ last.result.value.grand_totals[f] =
           round(SumOver(last.result.value.meters, Len(last.result.value.meters),
                         f, TotalTypes), 2)
      /\ \A k \in TotalTypes :
           last.result.value.totals_by_type[k][f] =
             round(SumOver(last.result.value.meters, Len(last.result.value.meters),
                           f, {k}), 2)

\* a tenant with an electric and a water meter, both billed: the grand total
\* is the sum of the two item totals, each bucket holds one of them
C14_Witness ==
  /\ last.op = "computeBillingForTenant" /\ last.result.ok
  /\ Len(last.result.value.meters) = 2
  /\ {last.result.value.meters[i].meter.meter_type : i \in 1..2} = {"electric", "water"}
  /\ \A i \in 1..2 : Gt(last.result.value.meters[i].billing.total, Zero)
  /\ last.result.value.grand_totals.total =
       Add(last.result.value.meters[1].billing.total,
           last.result.value.meters[2].billing.total)
  /\ Gt(last.result.value.totals_by_type["water"].total, Zero)
  /\ last.result.value.totals_by_type["lpg"] = ZeroTotals

(***************************************************************************)
(* Scope restriction of the batch calls (C15)                              *)
(***************************************************************************)
\* C15: in a batch call (tenant or building scope) the scope restriction is
\* checked once before the meter loop: a Forbidden outcome is decided before
\* the first meter is computed and never arises part-way through the loop.
C15_ForbiddenUpFront ==
  (last.op \in BatchOps /\ ~last.result.ok /\ last.result.status = 403) =>
    last.computed = 0

(***************************************************************************)
(* Ranges with an explicit start and end (C18)                             *)
(***************************************************************************)
RangeOps == {"ensureValidRange", "previousWindowSameLength"}

EndBeforeStart == Err(400, "period-end must be on or after period-start")

\* C18: a range of two well-formed dates whose end precedes its start is
\* rejected with the Validation failure by ensureValidRange, by
\* previousWindowSameLength and by computeROCForMeter; a range with end =
\* start is accepted, as a window of 1 day.
C18_EndBeforeStartRejected ==
  /\ ( /\ last.op \in RangeOps
       /\ isYMD(last.startDate) /\ isYMD(last.endDate) ) =>
        /\ last.endDate < last.startDate => last.result = EndBeforeStart
        /\ last.endDate = last.startDate =>
             /\ last.result.ok
             /\ last.op = "ensureValidRange" => last.result.value.days = 1
             /\ last.op = "previousWindowSameLength" =>
                  last.result.value.start = last.result.value.end
  /\ ( /\ last.op = "computeROCForMeter"
       /\ isYMD(last.req.startDate) /\ isYMD(last.req.endDate) ) =>
        /\ last.req.endDate < last.req.startDate => last.result = EndBeforeStart
        /\ last.req.endDate = last.req.startDate => last.result # EndBeforeStart

(***************************************************************************)
(* Rate of change of one meter (C21)                                       *)
(***************************************************************************)
IsRoc == last.op = "computeROCForMeter" /\ last.result.ok

\* the change of the second consumption against the first, in percent
PercentChange(a2p, p2c) == Mul(Div(Sub(p2c, a2p), a2p), Hundred)

\* n is the least integer not below the number x
IsCeilOf(n, x) == n[2] = 1 /\ Le(x, n) /\ Lt(Sub(n, One), x)

\* the meter of the call with its stall and building, a supported type, dates
\* that form a range and a reading in each of the three windows
RocComputable ==
  /\ last.op = "computeROCForMeter"
  /\ last.req.meterId \in DOMAIN meterTbl
  /\ toLowerCase(meterTbl[last.req.meterId].meter_type) \in SupportedTypes
  /\ ensureValidRange(last.req.startDate, last.req.endDate).ok
  /\ \A k \in {0, 1, 2} : rocWindowRows(last.req, k) # {NoRow}

\* C21: computeROCForMeter returns rate_of_change = ceil(((previous_to_current
\* - anchor_to_previous) / anchor_to_previous) * 100) when anchor_to_previous
\* > 0 and null when it is 0; the value is never Infinity or NaN, and a zero
\* baseline makes no call fail.
C21_RateOfChange ==
  /\ RocComputable => last.result.ok
  /\ IsRoc =>
       LET a2p == last.result.value.consumptions.anchor_to_previous
           p2c == last.result.value.consumptions.previous_to_current
           roc == last.result.value.rate_of_change
       IN  /\ a2p # Null /\ p2c # Null
           /\ Gt(a2p, Zero) => IsCeilOf(roc, PercentChange(a2p, p2c))
           /\ a2p = Zero => roc = Null

\* a fractional percentage rounded up: 2.50 then 3.17 units give 26.8%, 27
C21_Witness ==
  /\ IsRoc
  /\ last.result.value.consumptions.anchor_to_previous = <<5, 2>>
  /\ last.result.value.consumptions.previous_to_current = <<317, 100>>
  /\ last.result.value.rate_of_change = <<27, 1>>

\* a zero baseline: the electric meter of a building without minimum that
\* did not move from January to February
C21_WitnessZeroBaseline ==
  /\ IsRoc
  /\ last.result.value.consumptions.anchor_to_previous = Zero
  /\ Gt(last.result.value.consumptions.previous_to_current, Zero)
  /\ last.result.value.rate_of_change = Null

(***************************************************************************)
(* Readings required by the rate of change (C22)                           *)
(***************************************************************************)
\* the three windows of the call: 2 = anchor, 1 = previous, 0 = current
RocWindow(k) ==
  IF k = 0 THEN [start |-> last.req.startDate, end |-> last.req.endDate]
  ELSE [start |-> monthSpanFor(last.req.endDate, k).start,
        end   |-> monthSpanFor(last.req.endDate, k).end]

\* the call reached its reading queries
RocQueried ==
  /\ last.op = "computeROCForMeter"
  /\ last.req.meterId \in DOMAIN meterTbl
  /\ ensureValidRange(last.req.startDate, last.req.endDate).ok

\* the windows of the call without a reading of the meter
RocMissing == {RocWindow(k) : k \in {k \in {0, 1, 2} : rocWindowRows(last.req, k) = {NoRow}}}

\* C22: computeROCForMeter needs a reading in the anchor, the previous and
\* the current window: if any is absent the call fails with InsufficientData,
\* and the failure names exactly the windows that are missing.
C22_NamesMissingWindows ==
  (RocQueried /\ RocMissing # {}) =>
    /\ ~last.result.ok /\ last.result.status = 400
    /\ last.result.message = "Insufficient readings"
    /\ {last.result.windows[i] : i \in DOMAIN last.result.windows} = RocMissing

(***************************************************************************)
(* The three windows of the rate of change (C23)                           *)
(***************************************************************************)
\* C23: for every valid (startDate, endDate) the anchor, previous and current
\* windows of computeROCForMeter are three consecutive periods in that
\* order: anchor ends the day before previous starts, previous ends the day
\* before current starts, and no date belongs to two windows.
C23_ConsecutiveWindows ==
  IsRoc =>
    LET p == last.result.value.period
    IN  /\ p.anchor.end = DayBefore(p.previous.start)
        /\ p.previous.end = DayBefore(p.current.start)
        /\ p.anchor.end < p.previous.start
        /\ p.previous.end < p.current.start

(***************************************************************************)
(* Grouped rate of change (C24)                                            *)
(***************************************************************************)
\* the item is an analyzer output (not an error item)
Computed(r) == "error" \notin DOMAIN r

\* the sum of consumption f over the computed items among the first i
RECURSIVE RocSum(_, _, _)
RocSum(items, i, f) ==
  IF i = 0 THEN Zero
  ELSE IF Computed(items[i]) THEN Add(RocSum(items, i - 1, f), items[i].consumptions[f])
  ELSE RocSum(items, i - 1, f)

\* a group over items with the sums a2p and p2c and the percentage rate: its
\* computed items are of one utility type, its sums are those of its computed
\* items, and its percentage is taken from the sums
GroupSound(items, a2p, p2c, rate) ==
  /\ Cardinality({items[i].meter_type : i \in {j \in 1..Len(items) : Computed(items[j])}}) <= 1
  /\ a2p = round(RocSum(items, Len(items), "anchor_to_previous"), 2)
  /\ p2c = round(RocSum(items, Len(items), "previous_to_current"), 2)
  /\ Gt(a2p, Zero) => IsCeilOf(rate, PercentChange(a2p, p2c))
  /\ a2p = Zero => rate = Null

\* C24: the tenant-scope and the building-scope rate of change group the
\* per-meter outputs by utility type and take each group's percentage from
\* the group's sums of anchor_to_previous and previous_to_current (null for
\* a zero sum of anchor_to_previous); failed meters add nothing to the sums.
C24_GroupedByType ==
  /\ (last.op = "rocTenantRoute" /\ last.result.ok) =>
       \A i \in 1..Len(last.result.value.groups) :
         LET g == last.result.value.groups[i]
         IN  GroupSound(g.meters, g.totals.anchor_to_previous,
                        g.totals.previous_to_current, g.totals.rate_of_change)
  /\ (last.op = "rocBuildingRoute" /\ last.result.ok) =>
       \A i \in 1..Len(last.result.value.tenants) :
         LET t == last.result.value.tenants[i]
         IN  GroupSound(t.meters, t.totals.previous_consumption,
                        t.totals.current_consumption, t.totals.rate_of_change)

(***************************************************************************)
(* C25: idempotence of the per-meter billing computation                   *)
(***************************************************************************)
\* C25: with the readings and the configuration unchanged, a second call of
\* computeBillingForMeter with the same arguments returns a result equal to
\* the first in every field.
C25_Idempotent ==
  (last # Idle /\ last.op = "computeBillingForMeterAgain") => last.result = last.first

(***************************************************************************)
(* C26: the totals of a batch do not depend on the order of the meters     *)
(***************************************************************************)
\* the outcomes of the batch call op for the request req, over every order
\* of the meter rows, every answer of the reading queries and every instant
OutcomesOf(op, req) ==
  UNION {IF op = "computeBillingForTenant" THEN computeBillingForTenant(req, now)
         ELSE IF op = "computeBillingForTenantWithMarkup"
         THEN computeBillingForTenantWithMarkup(req, now)
         ELSE IF op = "computeBillingForBuilding" THEN computeBillingForBuilding(req, now)
         ELSE computeBillingForBuildingWithMarkup(req, now) : now \in Instants}

ItemSet(items) == {items[i] : i \in 1..Len(items)}

\* C26: for tenant and building aggregation, any two completed evaluations
\* of the same request that hold the same per-meter results, in whatever
\* order they were computed, have equal totals_by_type and grand_totals.
C26_OrderIndependent ==
  (last.op \in BatchOps /\ last.result.ok) =>
    \A e \in OutcomesOf(last.op, last.req) :
      (e.result.ok /\ ItemSet(e.result.value.meters) = ItemSet(last.result.value.meters)) =>
        /\ e.result.value.totals_by_type = last.result.value.totals_by_type
        /\ e.result.value.grand_totals = last.result.value.grand_totals

\* a building batch over two meters with different amounts, which the other
\* order of the rows returns with its list reversed
C26_Witness ==
  /\ last.op = "computeBillingForBuilding" /\ last.result.ok
  /\ Len(last.result.value.meters) = 2
  /\ last.result.value.meters[1].billing.total # last.result.value.meters[2].billing.total
  /\ Gt(last.result.value.grand_totals.total, Zero)
  /\ \E e \in OutcomesOf(last.op, last.req) :
       /\ e.result.ok
       /\ e.result.value.meters = <<last.result.value.meters[2], last.result.value.meters[1]>>

(***************************************************************************)
(* C27: the billing and the analytics unit calculators                     *)
(***************************************************************************)
\* the raw delta (curr - prev) * mult of the calculator call in hand
RawDelta == Mul(Sub(last.currIdx, last.prevIdx), NumOr(last.mult, One))

LpgAtFloor == toLowerCase(last.type) = "lpg" /\ Le(RawDelta, Zero)

\* the two calculators on the arguments of the call in hand
BillingUnits ==
  computeUnitsOnly(last.type, last.mult, last.building, last.prevIdx, last.currIdx)

AnalyticsUnits ==
  computeUnits(last.type, last.mult, last.building, last.prevIdx, last.currIdx)

\* C27: on the same type, multiplier, previous and current index
\* computeUnitsOnly and computeUnits return the same consumption (and both
\* throw for an unsupported type), except for an LPG meter with raw delta
\* <= 0, where the billing path returns 1 and the analytics path 0.
C27_SameUnitsButLpgFloor ==
  (last.op \in {"computeUnitsOnly", "computeUnits"}) =>
    /\ last.result = (IF last.op = "computeUnitsOnly" THEN BillingUnits ELSE AnalyticsUnits)
    /\ BillingUnits.ok = AnalyticsUnits.ok
    /\ BillingUnits.ok =>
         IF LpgAtFloor
         THEN BillingUnits.value = One /\ AnalyticsUnits.value = Zero
         ELSE BillingUnits.value = AnalyticsUnits.value

\* an LPG meter read lower than before: 1 on the billing path, 0 on the other
C27_Witness ==
  /\ last.op = "computeUnitsOnly" /\ last.type = "lpg"
  /\ Lt(last.currIdx, last.prevIdx) /\ last.mult = One
  /\ last.result = Ok(One)
  /\ AnalyticsUnits = Ok(Zero)

(***************************************************************************)
(* C28: concurrent requests to store a building billing header             *)
(***************************************************************************)
OneHeaderPerPeriod ==
  \A g, h \in billingTbl :
    (g.building_id = h.building_id /\ g.period_start = h.period_start
       /\ g.period_end = h.period_end) => g = h

\* C28: under any interleaving of the POST requests (standard or with
\* markup) for one building and period, at most one header is stored for
\* them, and every such request that does not store the header is answered
\* 409 'Billing already exists ...'.
C28_OneHeaderElseConflict ==
  /\ OneHeaderPerPeriod
  /\ \A p \in Posters :
       (posts[p].pc = "done" /\ posts[p].checked /\ ~posts[p].created) =>
         /\ posts[p].status = 409
         /\ posts[p].message = "Billing already exists for this building and period."

(***************************************************************************)
(* C29: the meter billing route and its start date                         *)
(***************************************************************************)
\* the billing figures of a response body
Figures(body) ==
  [indices |-> body.indices, consumption |-> body.totals.consumption,
   base |-> body.totals.base, vat |-> body.totals.vat, wt |-> body.totals.wt,
   penalty |-> body.totals.penalty, total |-> body.totals.total]

\* the responses to the request in hand with its start date replaced by s
WithStart(s) ==
  UNION {meterBillingRoute([last.req EXCEPT !.startDate = s], now) : now \in Instants}

\* C29: a request to the meter billing route that differs from an answered
\* one only in a well-formed start date not after the end date is answered
\* with the same indices, consumption, base, vat, wt, penalty and total, and
\* each response reports its own start and end date as the period.
C29_StartDateIrrelevant ==
  (last.op = "meterBillingRoute" /\ last.result.ok) =>
    /\ last.result.value.period = [start |-> last.req.startDate, end |-> last.req.endDate]
    /\ \A s \in MeterRouteStarts :
         (isYMD(s) /\ s <= last.req.endDate) =>
           \A r \in WithStart(s) :
             /\ r.ok
             /\ Figures(r.value) = Figures(last.result.value)
             /\ r.value.period = [start |-> s, end |-> last.req.endDate]

(***************************************************************************)
(* C30: an empty scope array restricts nothing                             *)
(***************************************************************************)
\* the building a call is checked against: the building of the meter's
\* stall, or the requested building
ResolvedBuilding ==
  IF last.op \in BuildingOps THEN last.req.buildingId
  ELSE stallTbl[meterTbl[last.req.meterId].stall_id].building_id

NoScope == ~last.req.restrictToBuildingIds.isArray \/ last.req.restrictToBuildingIds.ids = << >>

\* C30: computeBillingForMeter and computeBillingForBuilding (and their
\* with-markup twins) never fail with Forbidden when restrictToBuildingIds
\* is [] or null; a call that fails with Forbidden was given a non-empty
\* array that does not hold the resolved building id.
C30_EmptyScopeIsNoScope ==
  (last.op \in BillingOps \cup BuildingOps) =>
    /\ NoScope => (last.result.ok \/ last.result.status # 403)
    /\ (~last.result.ok /\ last.result.status = 403) =>
         /\ last.req.restrictToBuildingIds.isArray
         /\ last.req.restrictToBuildingIds.ids # << >>
         /\ ~Listed(last.req.restrictToBuildingIds.ids, ResolvedBuilding)

\* a building batch called with [] that bills the building's meters
C30_Witness ==
  /\ last.op = "computeBillingForBuilding"
  /\ last.req.restrictToBuildingIds = [isArray |-> TRUE, ids |-> << >>]
  /\ last.result.ok
  /\ Len(last.result.value.meters) > 0
  /\ Gt(last.result.value.grand_totals.total, Zero)

====
